---- MODULE Spec2Model ----
(***************************************************************************)
(* Model of the event bus and the serverless function manager of          *)
(* serverless_architecture.py.                                             *)
(*                                                                         *)
(* Python values are modelled as follows: a dict is a function whose       *)
(* DOMAIN is its key set, a list is a sequence, None is the record None,   *)
(* a callable is a record naming it.  uuid4() is a fresh integer.  The     *)
(* 'timestamp' of an event and the context object handed to a handler are  *)
(* read by nothing in the module and are left out.                         *)
(*                                                                         *)
(* The first part describes calls that do not overlap: every method of the *)
(* bus and of the manager is one action.  The second part describes calls  *)
(* made by several threads at once: a call is a sequence of steps of its    *)
(* thread, the bus lock is a variable, and  x += 1  on a counter is a load  *)
(* followed by a store.                                                     *)
(***************************************************************************)
EXTENDS Integers, Sequences, FiniteSets, TLC

(***************************************************************************)
(* Bounds of the model                                                     *)
(***************************************************************************)
\* SpecBus
MaxBusSize == 5
\* SpecHistory
PrefillLen == 99
MaxEvicted == 1
MaxSubsHistory == 1
\* FairSpec
MaxFairSize == 5
\* Spec
MaxSize == 3
\* SpecCallers
MaxCallersSize == 5
\* SpecThreads
MaxCalls == 2
\* SpecDurations
PrefillSamples == 99
MaxMoreCalls == 3

(***************************************************************************)
(* Python values                                                           *)
(***************************************************************************)
None == [py |-> "None"]

EmptyDict == [k \in {} |-> None]

\* bool(v) for a value that is a dict or None
Truthy(v) == v # None /\ DOMAIN v # {}

\* The expression  v or {}
OrEmptyDict(v) == IF Truthy(v) THEN v ELSE EmptyDict

\* d[k] = v
DictSet(d, k, v) == [x \in DOMAIN d \cup {k} |-> IF x = k THEN v ELSE d[x]]

\* dict.get(key, default)
DictGet(d, k, default) == IF k \in DOMAIN d THEN d[k] ELSE default

\* The test  if not d.get(key)  for a key whose values are numbers: the key
\* is missing, or its value is 0
Missing(d, k) == k \notin DOMAIN d \/ d[k] = 0

\* {**a, **b}
DictMerge(a, b) ==
  [x \in DOMAIN a \cup DOMAIN b |-> IF x \in DOMAIN b THEN b[x] ELSE a[x]]

\* Mutant: the test only looks whether the list has an element
InList_NonEmpty(x, list) == list # <<>>

\* x in list
InList(x, list) == \E i \in 1..Len(list) : list[i] = x

\* Mutant: the last element equal to x is dropped
RECURSIVE ListRemove_Last(_, _)
ListRemove_Last(list, x) ==
  IF list = <<>> THEN <<>>
  ELSE IF list[Len(list)] = x THEN SubSeq(list, 1, Len(list) - 1)
  ELSE ListRemove_Last(SubSeq(list, 1, Len(list) - 1), x) \o <<list[Len(list)]>>

\* list.remove(x): drops the first element equal to x
RECURSIVE ListRemove(_, _)
ListRemove(list, x) ==
  IF list = <<>> THEN <<>>
  ELSE IF Head(list) = x THEN Tail(list)
  ELSE <<Head(list)>> \o ListRemove(Tail(list), x)

(***************************************************************************)
(* Inputs                                                                  *)
(***************************************************************************)
EventTypes == {"case.created", "user.login"}

\* The threads that call the bus and the manager at the same time
Callers == {"t1", "t2"}

\* A callable the caller of the bus holds a reference to
Callable(id) == [kind |-> "callable", id |-> id]

Callbacks == {Callable("h1"), Callable("h2")}

\* What running a subscriber does: h_raise raises an exception, h_hang
\* never terminates, every other callable returns.  The closure a
\* registration subscribes returns what invoke_function returns.
Behaviour(callback) ==
  IF callback.kind = "callable" /\ callback.id = "h_raise" THEN "raises"
  ELSE IF callback.kind = "callable" /\ callback.id = "h_hang" THEN "hangs"
  ELSE "returns"

EventData == {None, [case_id |-> 7]}

FunctionNames == {"echo", "boom"}

\* The handlers given to register_function: one that returns and one that
\* always raises RuntimeError("fail")
Handlers == {"test_function", "boom_handler"}

RegisterOptions ==
  {None, [retries |-> 0],
   [retries |-> 2, events |-> <<[type |-> "case.created"]>>]}

Payloads == {None, [x |-> 1]}

InvokeOptions == {None, [retries |-> 1]}

\* time.time() - start_time of a successful handler call
Durations == {1, 2}

(***************************************************************************)
(* State                                                                   *)
(***************************************************************************)
VARIABLES
  subscribers,    \* EventBus.subscribers: event type -> list of callbacks
  event_history,  \* EventBus.event_history
  next_uuid,      \* the next value of uuid4()
  threads,        \* the threads publish has started, in start order
  functions,      \* ServerlessFunctionManager.functions
  metrics,        \* ServerlessFunctionManager.metrics
  last,           \* the call that ended last and what it returned
  lock,           \* EventBus.lock: None when free, else its owner
  pc,             \* where each calling thread is in the call it is making
  timeseries_manager,  \* ServerlessFunctionManager.timeseries_manager
  records,        \* the metric records written to the time-series database
  app             \* the Flask application: its url_map and view_functions

vars == <<subscribers, event_history, next_uuid, threads, functions, metrics, last,
          lock, pc, timeseries_manager, records, app>>

bus_vars == <<subscribers, event_history, next_uuid, threads>>

manager_vars == <<functions, metrics>>

call_vars == <<lock, pc, timeseries_manager, records, app>>

\* A calling thread that is in no call and has made n calls so far
Idle(n) == [at |-> "idle", n |-> n]

\* The application after Flask(__name__): the rule and the view function of
\* the static files
Flask ==
  [url_map |-> <<[rule |-> "/static/<path:filename>", endpoint |-> "static"]>>,
   view_functions |-> [e \in {"static"} |->
                         [kind |-> "view", name |-> "send_static_file",
                          is_serverless |-> FALSE]]]

(***************************************************************************)
(* EventBus                                                                *)
(***************************************************************************)
max_history == 100

\* Mutant: the event does not carry the data
NewEvent_NoData(id, event_type, event_data) ==
  [id |-> id, type |-> event_type, data |-> EmptyDict]

NewEvent(id, event_type, event_data) ==
  [id |-> id, type |-> event_type, data |-> OrEmptyDict(event_data)]

\* Mutant: the history is trimmed as soon as it reaches max_history
AppendHistory_TrimAtCap(history, event) ==
  LET appended == Append(history, event)
  IN  IF Len(appended) >= max_history THEN Tail(appended) ELSE appended

\* self.event_history.append(event); pop(0) when longer than max_history
AppendHistory(history, event) ==
  LET appended == Append(history, event)
  IN  IF Len(appended) > max_history THEN Tail(appended) ELSE appended

\* Mutant: the subscribers are called one after the other and the first
\* exception ends the loop
RECURSIVE StartThreads_UntilRaise(_, _)
StartThreads_UntilRaise(subs, event) ==
  IF subs = <<>> THEN <<>>
  ELSE <<[target |-> Head(subs), args |-> event, status |-> "started"]>>
       \o (IF Behaviour(Head(subs)) = "raises" THEN <<>>
           ELSE StartThreads_UntilRaise(Tail(subs), event))

\* One started thread per entry of the subscriber list, in list order
StartThreads(subs, event) ==
  [i \in 1..Len(subs) |-> [target |-> subs[i], args |-> event, status |-> "started"]]

Publish(event_type, event_data) ==
  /\ IF event_type \notin DOMAIN subscribers
     THEN /\ last' = [op |-> "publish", event_type |-> event_type,
                      event_data |-> event_data, ret |-> FALSE]
          /\ UNCHANGED bus_vars
     ELSE LET event == NewEvent(next_uuid, event_type, event_data)
          IN  /\ event_history' = AppendHistory(event_history, event)
              /\ threads' = threads \o StartThreads(subscribers[event_type], event)
              /\ next_uuid' = next_uuid + 1
              /\ last' = [op |-> "publish", event_type |-> event_type,
                          event_data |-> event_data, ret |-> TRUE]
              /\ UNCHANGED subscribers
  /\ UNCHANGED <<manager_vars, call_vars>>

\* Mutant: a callback that is already subscribed is not added again
Subscribed_Dedup(subs, event_type, callback) ==
  LET present == IF event_type \notin DOMAIN subs
                 THEN DictSet(subs, event_type, <<>>)
                 ELSE subs
  IN  IF InList(callback, present[event_type]) THEN present
      ELSE DictSet(present, event_type, Append(present[event_type], callback))

\* The subscriber mapping after subscribe(event_type, callback)
Subscribed(subs, event_type, callback) ==
  LET present == IF event_type \notin DOMAIN subs
                 THEN DictSet(subs, event_type, <<>>)
                 ELSE subs
  IN  DictSet(present, event_type, Append(present[event_type], callback))

Subscribe(event_type, callback) ==
  /\ subscribers' = Subscribed(subscribers, event_type, callback)
  /\ last' = [op |-> "subscribe", event_type |-> event_type,
              callback |-> callback, ret |-> TRUE]
  /\ UNCHANGED <<event_history, next_uuid, threads, manager_vars, call_vars>>

Unsubscribe(event_type, callback) ==
  /\ IF event_type \notin DOMAIN subscribers
     THEN /\ last' = [op |-> "unsubscribe", event_type |-> event_type,
                      callback |-> callback, ret |-> FALSE]
          /\ UNCHANGED subscribers
     ELSE IF ~InList(callback, subscribers[event_type])
     THEN /\ last' = [op |-> "unsubscribe", event_type |-> event_type,
                      callback |-> callback, ret |-> FALSE]
          /\ UNCHANGED subscribers
     ELSE /\ subscribers' = DictSet(subscribers, event_type,
                                    ListRemove(subscribers[event_type], callback))
          /\ last' = [op |-> "unsubscribe", event_type |-> event_type,
                      callback |-> callback, ret |-> TRUE]
  /\ UNCHANGED <<event_history, next_uuid, threads, manager_vars, call_vars>>

\* The list get_event_history returns; the falsy event_type (None, the
\* default) is written ""
HistoryOf(history, event_type) ==
  IF event_type # ""
  THEN SelectSeq(history, LAMBDA event : event.type = event_type)
  ELSE history

\* Mutant: without a filter the bus hands out its own list
ReturnedList_NoCopy(history, event_type) ==
  [items |-> HistoryOf(history, event_type), own_list |-> event_type = ""]

\* The list object get_event_history returns: the list comprehension and
\* copy() both build a new list, never the list the bus keeps
ReturnedList(history, event_type) ==
  [items |-> HistoryOf(history, event_type), own_list |-> FALSE]

GetEventHistory(event_type) ==
  /\ last' = [op |-> "get_event_history", event_type |-> event_type,
              events |-> ReturnedList(event_history, event_type).items,
              own_list |-> ReturnedList(event_history, event_type).own_list]
  /\ UNCHANGED <<bus_vars, manager_vars, call_vars>>

\* What the caller appends to a list it was given
CallerItem == [id |-> 0, type |-> "caller", data |-> EmptyDict]

\* The caller of get_event_history appends an item to the list it got, or
\* removes the last item from it
CallerChangesList(append) ==
  /\ last.op = "get_event_history"
  /\ append \/ last.events # <<>>
  /\ last' = [op |-> "returned_list_changed", event_type |-> last.event_type,
              events |-> IF append THEN Append(last.events, CallerItem)
                         ELSE SubSeq(last.events, 1, Len(last.events) - 1),
              own_list |-> last.own_list]
  /\ event_history' =
       IF last.own_list
       THEN IF append THEN Append(event_history, CallerItem)
            ELSE SubSeq(event_history, 1, Len(event_history) - 1)
       ELSE event_history
  /\ UNCHANGED <<subscribers, next_uuid, threads, manager_vars, call_vars>>

(***************************************************************************)
(* ServerlessFunctionManager                                               *)
(***************************************************************************)
default_options ==
  [timeout |-> 30000, memory_size |-> 128, environment |-> EmptyDict,
   concurrency |-> 100, retries |-> 3, events |-> <<>>]

\* The closure  lambda event_data: self.invoke_function(name, event_data)
Lambda(name) == [kind |-> "lambda", name |-> name]

\* options['events'] when the key is there and the list is not empty
EventsOf(options) ==
  IF "events" \in DOMAIN options THEN options["events"] ELSE <<>>

\* Mutant: only the first listed event is subscribed
SubscribeEvents_FirstOnly(subs, events, callback) ==
  IF events = <<>> THEN subs
  ELSE Subscribed(subs, Head(events).type, callback)

\* The subscriber mapping after subscribing callback to every listed event
RECURSIVE SubscribeEvents(_, _, _)
SubscribeEvents(subs, events, callback) ==
  IF events = <<>> THEN subs
  ELSE SubscribeEvents(Subscribed(subs, Head(events).type, callback),
                       Tail(events), callback)

\* Mutant: the metrics of a name that has metrics already are kept
RegisteredMetrics_KeepExisting(m, name) ==
  IF name \in DOMAIN m.invocations THEN m
  ELSE [invocations |-> DictSet(m.invocations, name, 0),
        errors      |-> DictSet(m.errors, name, 0),
        durations   |-> DictSet(m.durations, name, <<>>)]

\* The metrics of a function as register_function sets them
RegisteredMetrics(m, name) ==
  [invocations |-> DictSet(m.invocations, name, 0),
   errors      |-> DictSet(m.errors, name, 0),
   durations   |-> DictSet(m.durations, name, <<>>)]

RegisterFunction(name, handler, options) ==
  LET opts == OrEmptyDict(options)
      function_config ==
        [name |-> name, handler |-> handler,
         options |-> DictMerge(default_options, opts)]
  IN  /\ functions' = DictSet(functions, name, function_config)
      /\ metrics' = RegisteredMetrics(metrics, name)
      /\ subscribers' = SubscribeEvents(subscribers, EventsOf(opts), Lambda(name))
      /\ last' = [op |-> "register_function", name |-> name,
                  handler |-> handler, options |-> options, ret |-> TRUE]
      /\ UNCHANGED <<event_history, next_uuid, threads, call_vars>>

\* process_new_case(payload, context) of serverless_functions.py.  Of the
\* body of its result the case_id is kept; the analysis of the description
\* and the processing time are left out.
ProcessNewCase(payload) ==
  IF Missing(payload, "case_id")
  THEN [statusCode |-> 400, body |-> [error |-> "Case ID is required"]]
  ELSE [statusCode |-> 200, body |-> [case_id |-> payload["case_id"]]]

\* match_lawyers(payload, context) of serverless_functions.py, with the
\* case_id of the body of its result
MatchLawyers(payload) ==
  IF Missing(payload, "case_id")
  THEN [statusCode |-> 400, body |-> [error |-> "Case ID is required"]]
  ELSE [statusCode |-> 200, body |-> [case_id |-> payload["case_id"]]]

\* handle_user_login(event_data) of serverless_functions.py
HandleUserLogin(event_data) ==
  IF Missing(event_data, "user_id")
  THEN [error |-> "User ID is required"]
  ELSE [user_id |-> event_data["user_id"], processed |-> TRUE]

\* The closure serverless_handler that event_handler registers for func
EventHandlerOf(func) == func \o ".serverless_handler"

\* What calling the handler with a payload does: it returns a result or
\* raises an exception whose str() is message.  required_field_handler
\* returns payload['x'] and raises KeyError('x') when the field is missing.
HandlerCall(handler, payload) ==
  IF handler = "process_new_case"
  THEN [raised |-> FALSE, result |-> ProcessNewCase(payload)]
  ELSE IF handler = "match_lawyers"
  THEN [raised |-> FALSE, result |-> MatchLawyers(payload)]
  ELSE IF handler = EventHandlerOf("handle_user_login")
  THEN [raised |-> FALSE,
        result |-> HandleUserLogin(DictGet(payload, "detail", EmptyDict))]
  ELSE IF handler = "test_function"
  THEN [raised |-> FALSE,
        result |-> [statusCode |-> 200,
                    body |-> [message |-> "Success", payload |-> payload]]]
  ELSE IF handler = "required_field_handler"
  THEN IF "x" \in DOMAIN payload
       THEN [raised |-> FALSE,
             result |-> [statusCode |-> 200, body |-> [seen |-> payload["x"]]]]
       ELSE [raised |-> TRUE, message |-> "'x'"]
  ELSE [raised |-> TRUE, message |-> "fail"]

\* Mutant: an unknown name is answered like a failed handler
NotFound_AsFailure(name) ==
  [statusCode |-> 500, body |-> [error |-> "Function " \o name \o " not found"]]

NotFound(name) ==
  [statusCode |-> 404, body |-> [error |-> "Function " \o name \o " not found"]]

\* Mutant: the list is trimmed to its first 100 samples
RecordDuration_KeepOldest(durations, duration) ==
  LET appended == Append(durations, duration)
  IN  IF Len(appended) > 100 THEN SubSeq(appended, 1, 100) ELSE appended

\* Mutant: only the latest sample is kept
RecordDuration_KeepLatest(durations, duration) == <<duration>>

\* durations[name] after append(duration) and the trim to the last 100
RecordDuration(durations, duration) ==
  LET appended == Append(durations, duration)
  IN  IF Len(appended) > 100
      THEN SubSeq(appended, Len(appended) - 99, Len(appended))
      ELSE appended

\* Mutant: the retries the function was registered with are not looked at
RetriesOf_OptionsOnly(options, function_config) ==
  IF Truthy(options) /\ "retries" \in DOMAIN options THEN options["retries"] ELSE 0

\* Mutant: the budget is decremented before it is tested
RetriesOf_Decremented(options, function_config) ==
  IF Truthy(options)
  THEN IF "retries" \in DOMAIN options THEN options["retries"] - 1
       ELSE function_config.options["retries"] - 1
  ELSE function_config.options["retries"] - 1

\* The retries left after a failed attempt
RetriesOf(options, function_config) ==
  IF Truthy(options)
  THEN IF "retries" \in DOMAIN options THEN options["retries"]
       ELSE function_config.options["retries"]
  ELSE function_config.options["retries"]

\* Mutant: the retry writes its budget into the mapping of the caller
NewOptions_Shared(options) ==
  [value |-> OrEmptyDict(options), shared |-> Truthy(options)]

\* new_options = options.copy() if options else {}: a mapping of its own,
\* which shares nothing with the mapping the caller passed
NewOptions(options) == [value |-> OrEmptyDict(options), shared |-> FALSE]

\* invoke_function(name, payload, options) on registry fns and metrics m:
\* the metrics afterwards, the result, the payloads the handler was called
\* with, in call order, and what the mapping passed as options holds when
\* the call returns
RECURSIVE InvokeFunction(_, _, _, _, _, _)
InvokeFunction(fns, m, name, payload, options, duration) ==
  IF name \notin DOMAIN fns
  THEN [metrics |-> m, result |-> NotFound(name), calls |-> <<>>, options |-> options]
  ELSE
    LET function_config == fns[name]
        m1 == [m EXCEPT !.invocations[name] = @ + 1]
        outcome == HandlerCall(function_config.handler, OrEmptyDict(payload))
        call == OrEmptyDict(payload)
    IN  IF ~outcome.raised
        THEN [metrics |-> [m1 EXCEPT !.durations[name] = RecordDuration(@, duration)],
              result |-> outcome.result,
              calls |-> <<call>>, options |-> options]
        ELSE
          LET m2 == [m1 EXCEPT !.errors[name] = @ + 1]
              retries == RetriesOf(options, function_config)
          IN  IF retries > 0
              THEN LET copied == NewOptions(options)
                       new_options == DictSet(copied.value, "retries", retries - 1)
                       retried == InvokeFunction(fns, m2, name, payload, new_options, duration)
                   IN  [retried EXCEPT !.calls = <<call>> \o @,
                                       !.options = IF copied.shared THEN @ ELSE options]
              ELSE [metrics |-> m2,
                    result |-> [statusCode |-> 500, body |-> [error |-> outcome.message]],
                    calls |-> <<call>>, options |-> options]

Invoke(name, payload, options, duration) ==
  LET done == InvokeFunction(functions, metrics, name, payload, options, duration)
  IN  /\ metrics' = done.metrics
      /\ last' = [op |-> "invoke_function", name |-> name, payload |-> payload,
                  options |-> options, result |-> done.result, calls |-> done.calls,
                  options_after |-> done.options]
      /\ UNCHANGED <<bus_vars, functions, call_vars>>

RECURSIVE SumSeq(_)
SumSeq(list) == IF list = <<>> THEN 0 ELSE Head(list) + SumSeq(Tail(list))

\* A quotient of two integers, as the pair of them
Quotient(num, den) == [num |-> num, den |-> den]

\* Mutant: the sum is divided by the length also when the list is empty
CalculateAvgDuration_NoGuard(m, name) ==
  LET durations == IF name \in DOMAIN m.durations THEN m.durations[name] ELSE <<>>
  IN  Quotient(SumSeq(durations), Len(durations))

\* _calculate_avg_duration(name): 0 without a sample, else sum / len
CalculateAvgDuration(m, name) ==
  LET durations == IF name \in DOMAIN m.durations THEN m.durations[name] ELSE <<>>
  IN  IF durations = <<>> THEN Quotient(0, 1)
      ELSE Quotient(SumSeq(durations), Len(durations))

\* The entries list_functions returns, one per key of the registry (the
\* order of the list is the order of the keys of the dict and is left out)
ListedFunctions(fns, m) ==
  {[name |-> name,
    options |-> fns[name].options,
    metrics |-> [invocations |-> DictGet(m.invocations, name, 0),
                 errors |-> DictGet(m.errors, name, 0),
                 avg_duration |-> CalculateAvgDuration(m, name)]] :
     name \in DOMAIN fns}

ListFunctions ==
  /\ last' = [op |-> "list_functions", entries |-> ListedFunctions(functions, metrics)]
  /\ UNCHANGED <<bus_vars, manager_vars, call_vars>>

(***************************************************************************)
(* The threads publish started.  A thread runs its target once with the    *)
(* event; what the target returns or raises ends with the thread.  A       *)
(* target that never terminates leaves its thread started for ever.        *)
(***************************************************************************)
RunThread(i, duration) ==
  /\ i \in 1..Len(threads)
  /\ threads[i].status = "started"
  /\ Behaviour(threads[i].target) # "hangs"
  /\ threads' = [threads EXCEPT ![i].status =
                   IF Behaviour(threads[i].target) = "raises"
                   THEN "raised" ELSE "finished"]
  /\ IF threads[i].target.kind = "lambda"
     THEN LET done == InvokeFunction(functions, metrics, threads[i].target.name,
                                     threads[i].args, None, duration)
          IN  /\ metrics' = done.metrics
              /\ last' = [op |-> "thread", thread |-> i, result |-> done.result]
     ELSE /\ UNCHANGED metrics
          /\ last' = [op |-> "thread", thread |-> i, result |-> None]
  /\ UNCHANGED <<subscribers, event_history, next_uuid, functions, call_vars>>

(***************************************************************************)
(* The bus called by several threads.  A call takes the lock, runs its     *)
(* body and releases the lock when it returns.                             *)
(***************************************************************************)
\* Mutant: the methods do not take the lock
CanAcquire_NoLock(l, t) == TRUE

\* with self.lock: the thread goes on when the lock is free
CanAcquire(l, t) == l = None

\* Mutant: publish joins the threads it started
Joined_All(started) == started

\* The threads publish waits for before it returns: it joins none
Joined(started) == {}

\* publish(event_type, event_data) by thread t: the lock is taken
PublishEnter(t, event_type, event_data) ==
  /\ pc[t].at = "idle"
  /\ CanAcquire(lock, t)
  /\ lock' = [owner |-> t]
  /\ pc' = [pc EXCEPT ![t] = [at |-> "publish", n |-> pc[t].n + 1,
                               event_type |-> event_type, event_data |-> event_data]]
  /\ UNCHANGED <<bus_vars, manager_vars, last, timeseries_manager, app, records>>

\* The body of publish, from the test of the event type to the last
\* Thread.start()
PublishLocked(t) ==
  /\ pc[t].at = "publish"
  /\ IF pc[t].event_type \notin DOMAIN subscribers
     THEN /\ pc' = [pc EXCEPT ![t] = [at |-> "publish_return", n |-> pc[t].n,
                                      event_type |-> pc[t].event_type,
                                      event_data |-> pc[t].event_data,
                                      ret |-> FALSE, started |-> {}]]
          /\ UNCHANGED bus_vars
     ELSE LET event == NewEvent(next_uuid, pc[t].event_type, pc[t].event_data)
              started == StartThreads(subscribers[pc[t].event_type], event)
          IN  /\ event_history' = AppendHistory(event_history, event)
              /\ threads' = threads \o started
              /\ next_uuid' = next_uuid + 1
              /\ pc' = [pc EXCEPT ![t] =
                          [at |-> "publish_return", n |-> pc[t].n,
                           event_type |-> pc[t].event_type,
                           event_data |-> pc[t].event_data, ret |-> TRUE,
                           started |-> (Len(threads) + 1)..(Len(threads) + Len(started))]]
              /\ UNCHANGED subscribers
  /\ UNCHANGED <<manager_vars, last, lock, timeseries_manager, app, records>>

\* return True / return False: the with block ends and the lock is free
PublishReturn(t) ==
  /\ pc[t].at = "publish_return"
  /\ \A i \in Joined(pc[t].started) : threads[i].status \in {"finished", "raised"}
  /\ lock' = None
  /\ pc' = [pc EXCEPT ![t] = Idle(pc[t].n)]
  /\ last' = [op |-> "publish", caller |-> t, event_type |-> pc[t].event_type,
              event_data |-> pc[t].event_data, ret |-> pc[t].ret]
  /\ UNCHANGED <<bus_vars, manager_vars, timeseries_manager, app, records>>

\* subscribe and unsubscribe hold the lock from their first to their last
\* statement
LockedSubscribe(t, event_type, callback) ==
  /\ pc[t].at = "idle"
  /\ CanAcquire(lock, t)
  /\ Subscribe(event_type, callback)

LockedUnsubscribe(t, event_type, callback) ==
  /\ pc[t].at = "idle"
  /\ CanAcquire(lock, t)
  /\ Unsubscribe(event_type, callback)

(***************************************************************************)
(* invoke_function called by several threads.  The manager takes no lock:  *)
(* every statement that reads or writes the registry or the metrics is a   *)
(* step of its own, and  counter += 1  is a load and a store.  The retry   *)
(* is a call of invoke_function in the except block whose result is        *)
(* returned as it is, so the thread goes back to the first statement with  *)
(* the new options.                                                        *)
(***************************************************************************)
\* The handlers of this part: one that needs the field x of its payload,
\* and one that raises on some calls and returns on others
ThreadHandlers == {"required_field_handler", "flaky_handler"}

\* What one call of the handler can do
HandlerOutcomes(handler, payload) ==
  IF handler = "flaky_handler"
  THEN {[raised |-> FALSE, result |-> [statusCode |-> 200, body |-> [ok |-> TRUE]]],
        [raised |-> TRUE, message |-> "flaky"]}
  ELSE {HandlerCall(handler, payload)}

\* Mutant: the exception is raised again when no retry is left
Failure_Reraise(message) == [raised |-> message]

\* The result of a call whose last attempt raised
Failure(message) == [statusCode |-> 500, body |-> [error |-> message]]

\* Mutant: the counter is raised by two
Incremented_ByTwo(loaded, current) == loaded + 2

\* Mutant: the counter is incremented in one indivisible step
Incremented_Atomic(loaded, current) == current + 1

\* counter += 1: the value stored is the value loaded plus one, whatever
\* the counter holds by now
Incremented(loaded, current) == loaded + 1

\* Mutant: a failed attempt is not reported
Emitted_SuccessOnly(recs, tm, t, name, status) ==
  IF tm # None /\ tm.initialized /\ status = "success"
  THEN Append(recs, [metric_type |-> "serverless_invocation", component |-> name,
                     status |-> status, by |-> t])
  ELSE recs

\* The records after  if self.timeseries_manager: record_system_metric(...)
\* by thread t: one more record when the time-series database is there
Emitted(recs, tm, t, name, status) ==
  IF tm # None /\ tm.initialized
  THEN Append(recs, [metric_type |-> "serverless_invocation", component |-> name,
                     status |-> status, by |-> t])
  ELSE recs

\* What invoke_function hands to the thread that called it
InvokeReturn(t, result) ==
  /\ pc' = [pc EXCEPT ![t] = Idle(pc[t].n)]
  /\ last' = [op |-> "invoke_function", caller |-> t, name |-> pc[t].name,
              payload |-> pc[t].payload, result |-> result,
              attempts |-> pc[t].attempts]

\* Thread t calls invoke_function(name, payload, options)
InvokeStart(t, name, payload, options) ==
  /\ pc[t].at = "idle"
  /\ pc' = [pc EXCEPT ![t] =
              [at |-> "lookup", n |-> pc[t].n + 1, name |-> name,
               payload |-> payload, options |-> options, attempts |-> 0]]
  /\ UNCHANGED <<bus_vars, manager_vars, last, lock, timeseries_manager, app, records>>

\* if name not in self.functions ... function_config = self.functions[name]
Lookup(t) ==
  /\ pc[t].at = "lookup"
  /\ IF pc[t].name \notin DOMAIN functions
     THEN InvokeReturn(t, NotFound(pc[t].name))
     ELSE /\ pc' = [pc EXCEPT ![t] =
                     [f \in DOMAIN pc[t] \cup {"function_config"} |->
                        IF f = "at" THEN "load_invocations"
                        ELSE IF f = "function_config" THEN functions[pc[t].name]
                        ELSE pc[t][f]]]
          /\ UNCHANGED last
  /\ UNCHANGED <<bus_vars, manager_vars, lock, timeseries_manager, app, records>>

\* The record of thread t with field f set to v and the thread at step at
Goto(t, at, f, v) ==
  [pc EXCEPT ![t] = [g \in DOMAIN pc[t] \cup {f} |->
                       IF g = "at" THEN at ELSE IF g = f THEN v ELSE pc[t][g]]]

\* self.metrics['invocations'][name] += 1, the load
LoadInvocations(t) ==
  /\ pc[t].at = "load_invocations"
  /\ pc' = Goto(t, "store_invocations", "loaded", metrics.invocations[pc[t].name])
  /\ UNCHANGED <<bus_vars, manager_vars, last, lock, timeseries_manager, app, records>>

\* self.metrics['invocations'][name] += 1, the store
StoreInvocations(t) ==
  /\ pc[t].at = "store_invocations"
  /\ metrics' = [metrics EXCEPT !.invocations[pc[t].name] =
                   Incremented(pc[t].loaded, @)]
  /\ pc' = Goto(t, "handler", "loaded", 0)
  /\ UNCHANGED <<bus_vars, functions, last, lock, timeseries_manager, app, records>>

\* result = function_config['handler'](payload or {}, context)
CallHandler(t) ==
  /\ pc[t].at = "handler"
  /\ \E outcome \in HandlerOutcomes(pc[t].function_config.handler,
                                     OrEmptyDict(pc[t].payload)) :
       pc' = [Goto(t, IF outcome.raised THEN "load_errors" ELSE "record_duration",
                   "outcome", outcome)
                EXCEPT ![t].attempts = @ + 1]
  /\ UNCHANGED <<bus_vars, manager_vars, last, lock, timeseries_manager, app, records>>

\* The duration is appended and the list trimmed
RecordDurationStep(t, duration) ==
  /\ pc[t].at = "record_duration"
  /\ metrics' = [metrics EXCEPT !.durations[pc[t].name] = RecordDuration(@, duration)]
  /\ pc' = Goto(t, "record_success", "loaded", 0)
  /\ UNCHANGED <<bus_vars, functions, last, lock, timeseries_manager, app, records>>

\* The success record is written and the result of the handler returned
ReturnResult(t) ==
  /\ pc[t].at = "record_success"
  /\ records' = Emitted(records, timeseries_manager, t, pc[t].name, "success")
  /\ InvokeReturn(t, pc[t].outcome.result)
  /\ UNCHANGED <<bus_vars, manager_vars, lock, timeseries_manager, app>>

\* self.metrics['errors'][name] += 1, the load
LoadErrors(t) ==
  /\ pc[t].at = "load_errors"
  /\ pc' = Goto(t, "store_errors", "loaded", metrics.errors[pc[t].name])
  /\ UNCHANGED <<bus_vars, manager_vars, last, lock, timeseries_manager, app, records>>

\* self.metrics['errors'][name] += 1, the store
StoreErrors(t) ==
  /\ pc[t].at = "store_errors"
  /\ metrics' = [metrics EXCEPT !.errors[pc[t].name] = Incremented(pc[t].loaded, @)]
  /\ pc' = Goto(t, "handle_error", "loaded", 0)
  /\ UNCHANGED <<bus_vars, functions, last, lock, timeseries_manager, app, records>>

\* The error record is written; then the retry, or the 500 result
HandleError(t) ==
  /\ pc[t].at = "handle_error"
  /\ records' = Emitted(records, timeseries_manager, t, pc[t].name, "error")
  /\ LET retries == RetriesOf(pc[t].options, pc[t].function_config)
     IN  IF retries > 0
         THEN /\ pc' = Goto(t, "lookup", "options",
                            DictSet(OrEmptyDict(pc[t].options), "retries", retries - 1))
              /\ UNCHANGED last
         ELSE InvokeReturn(t, Failure(pc[t].outcome.message))
  /\ UNCHANGED <<bus_vars, manager_vars, lock, timeseries_manager, app>>

(***************************************************************************)
(* Specifications                                                          *)
(***************************************************************************)
\* The state after ServerlessFunctionManager()
Init ==
  /\ subscribers = EmptyDict
  /\ event_history = <<>>
  /\ next_uuid = 1
  /\ threads = <<>>
  /\ functions = EmptyDict
  /\ metrics = [invocations |-> EmptyDict, errors |-> EmptyDict, durations |-> EmptyDict]
  /\ last = [op |-> "init"]
  /\ lock = None
  /\ pc = [t \in Callers |-> Idle(0)]
  /\ timeseries_manager = None
  /\ records = <<>>
  /\ app = Flask

RECURSIVE SumLen(_, _)
SumLen(d, keys) ==
  IF keys = {} THEN 0
  ELSE LET k == CHOOSE x \in keys : TRUE
       IN  Len(d[k]) + SumLen(d, keys \ {k})

NumSubscriptions == SumLen(subscribers, DOMAIN subscribers)

\* The threads a publish of event_type would start
NumStarted(event_type) ==
  IF event_type \in DOMAIN subscribers THEN Len(subscribers[event_type]) ELSE 0

\* What the bound of SpecBus counts: subscriptions, published events and
\* started threads
BusSize == NumSubscriptions + (next_uuid - 1) + Len(threads)

(* The bus on its own, its subscribers being callables of the caller *)
BusPublish ==
  \E event_type \in EventTypes, event_data \in EventData :
    /\ BusSize + NumStarted(event_type) < MaxBusSize
    /\ Publish(event_type, event_data)

BusSubscribe ==
  \E event_type \in EventTypes, callback \in Callbacks :
    /\ BusSize < MaxBusSize
    /\ Subscribe(event_type, callback)

BusUnsubscribe ==
  \E event_type \in EventTypes, callback \in Callbacks :
    Unsubscribe(event_type, callback)

BusRunThread ==
  \E i \in 1..Len(threads), duration \in Durations : RunThread(i, duration)

NextBus ==
  \/ BusPublish
  \/ BusSubscribe
  \/ BusUnsubscribe
  \/ BusRunThread

SpecBus == Init /\ [][NextBus]_vars

(* The bus with a long history: the initial state is the state after       *)
(* subscribe("case.created", h1) and PrefillLen publishes of that type,    *)
(* all of whose threads have finished.  Publishing goes on until           *)
(* MaxEvicted events have been evicted.                                    *)
PrefillEvent(i) ==
  [id |-> i - PrefillLen, type |-> "case.created", data |-> [case_id |-> 7]]

InitHistory ==
  /\ subscribers = ("case.created" :> <<Callable("h1")>>)
  /\ event_history = [i \in 1..PrefillLen |-> PrefillEvent(i)]
  /\ next_uuid = 1
  /\ threads = [i \in 1..PrefillLen |->
                  [target |-> Callable("h1"), args |-> PrefillEvent(i),
                   status |-> "finished"]]
  /\ functions = EmptyDict
  /\ metrics = [invocations |-> EmptyDict, errors |-> EmptyDict, durations |-> EmptyDict]
  /\ last = [op |-> "thread", thread |-> PrefillLen, result |-> None]
  /\ lock = None
  /\ pc = [t \in Callers |-> Idle(0)]
  /\ timeseries_manager = None
  /\ records = <<>>
  /\ app = Flask

HistoryPublish ==
  \E event_type \in EventTypes, event_data \in EventData :
    /\ PrefillLen + next_uuid - 1 < max_history + MaxEvicted
    /\ Publish(event_type, event_data)

HistorySubscribe ==
  \E event_type \in EventTypes :
    /\ NumSubscriptions < MaxSubsHistory
    /\ Subscribe(event_type, Callable("h1"))

HistoryUnsubscribe ==
  \E event_type \in EventTypes : Unsubscribe(event_type, Callable("h1"))

HistoryGetEventHistory ==
  \E event_type \in EventTypes \cup {""} : GetEventHistory(event_type)

HistoryCallerChangesList == \E append \in BOOLEAN : CallerChangesList(append)

NextHistory ==
  \/ HistoryPublish
  \/ HistorySubscribe
  \/ HistoryUnsubscribe
  \/ HistoryGetEventHistory
  \/ HistoryCallerChangesList
  \/ BusRunThread

SpecHistory == InitHistory /\ [][NextHistory]_vars

(* The bus with threads that are scheduled fairly: a started thread runs   *)
(* in the end.                                                             *)
FairPublish ==
  \E event_data \in EventData :
    /\ BusSize + NumStarted("case.created") < MaxFairSize
    /\ Publish("case.created", event_data)

FairSubscribe ==
  \E callback \in Callbacks :
    /\ BusSize < MaxFairSize
    /\ Subscribe("case.created", callback)

FairUnsubscribe ==
  \E callback \in Callbacks : Unsubscribe("case.created", callback)

NextFair ==
  \/ FairPublish
  \/ FairSubscribe
  \/ FairUnsubscribe
  \/ BusRunThread

FairSpec ==
  /\ Init
  /\ [][NextFair]_vars
  /\ \A i \in 1..MaxFairSize : WF_vars(\E duration \in Durations : RunThread(i, duration))

(* The function manager with its bus *)
RECURSIVE SumOf(_, _)
SumOf(d, keys) ==
  IF keys = {} THEN 0
  ELSE LET k == CHOOSE x \in keys : TRUE
       IN  d[k] + SumOf(d, keys \ {k})

NumInvocations == SumOf(metrics.invocations, DOMAIN metrics.invocations)

\* What the bound of Spec counts: subscriptions, published events and
\* counted invocations
Size == NumSubscriptions + (next_uuid - 1) + NumInvocations

ManagerRegister ==
  \E name \in FunctionNames, handler \in Handlers, options \in RegisterOptions :
    /\ Size + Len(EventsOf(OrEmptyDict(options))) <= MaxSize
    /\ RegisterFunction(name, handler, options)

ManagerInvoke ==
  \E name \in FunctionNames, payload \in Payloads, options \in InvokeOptions,
     duration \in Durations :
    /\ Size < MaxSize
    /\ Invoke(name, payload, options, duration)

ManagerPublish ==
  \E event_data \in EventData :
    /\ Size < MaxSize
    /\ Publish("case.created", event_data)

Next ==
  \/ ManagerRegister
  \/ ManagerInvoke
  \/ ManagerPublish
  \/ BusRunThread

Spec == Init /\ [][Next]_vars

(* The bus called by the threads of Callers.  The n-th publish of thread t *)
(* carries the data CallerData(t, n); the subscribers are callables that   *)
(* return, raise or never terminate.                                       *)
CallerData(t, n) == [caller |-> t, n |-> n]

CallerCallbacks == {Callable("h1"), Callable("h_raise"), Callable("h_hang")}

RECURSIVE SumCalls(_)
SumCalls(callers) ==
  IF callers = {} THEN 0
  ELSE LET t == CHOOSE x \in callers : TRUE
       IN  pc[t].n + SumCalls(callers \ {t})

\* What the bound of SpecCallers counts: subscriptions, publish calls and
\* started threads
CallersSize == NumSubscriptions + SumCalls(Callers) + Len(threads)

CallersPublishEnter ==
  \E t \in Callers, event_type \in EventTypes :
    /\ CallersSize + NumStarted(event_type) < MaxCallersSize
    /\ PublishEnter(t, event_type, CallerData(t, pc[t].n + 1))

CallersPublishLocked == \E t \in Callers : PublishLocked(t)

CallersPublishReturn == \E t \in Callers : PublishReturn(t)

CallersSubscribe ==
  \E t \in Callers, callback \in CallerCallbacks :
    /\ CallersSize < MaxCallersSize
    /\ LockedSubscribe(t, "case.created", callback)

CallersUnsubscribe ==
  \E t \in Callers, callback \in CallerCallbacks :
    LockedUnsubscribe(t, "case.created", callback)

NextCallers ==
  \/ CallersPublishEnter
  \/ CallersPublishLocked
  \/ CallersPublishReturn
  \/ CallersSubscribe
  \/ CallersUnsubscribe
  \/ BusRunThread

SpecCallers == Init /\ [][NextCallers]_vars

(* The manager with many samples: the initial state is the state after     *)
(* register_function("echo", required_field_handler, {'retries': 0}) and   *)
(* PrefillSamples calls with the payload {'x': 1}.  A second function is    *)
(* registered and called next to it, and MaxMoreCalls more attempts are    *)
(* made.                                                                   *)
PrefillDuration(i) == 1 + (i % 2)

InitDurations ==
  /\ subscribers = EmptyDict
  /\ event_history = <<>>
  /\ next_uuid = 1
  /\ threads = <<>>
  /\ functions = DictSet(EmptyDict, "echo",
                         [name |-> "echo", handler |-> "required_field_handler",
                          options |-> DictMerge(default_options, [retries |-> 0])])
  /\ metrics = [invocations |-> DictSet(EmptyDict, "echo", PrefillSamples),
                errors |-> DictSet(EmptyDict, "echo", 0),
                durations |-> DictSet(EmptyDict, "echo",
                                      [i \in 1..PrefillSamples |-> PrefillDuration(i)])]
  /\ last = [op |-> "invoke_function", name |-> "echo", payload |-> [x |-> 1],
             options |-> None,
             result |-> [statusCode |-> 200, body |-> [seen |-> 1]],
             calls |-> <<[x |-> 1]>>, options_after |-> None]
  /\ lock = None
  /\ pc = [t \in Callers |-> Idle(0)]
  /\ timeseries_manager = None
  /\ records = <<>>
  /\ app = Flask

DurationsRegister ==
  \E handler \in Handlers : RegisterFunction("boom", handler, [retries |-> 1])

DurationsInvoke ==
  \E name \in FunctionNames, payload \in Payloads, duration \in Durations :
    /\ NumInvocations < PrefillSamples + MaxMoreCalls
    /\ Invoke(name, payload, None, duration)

NextDurations ==
  \/ DurationsRegister
  \/ DurationsInvoke
  \/ ListFunctions

SpecDurations == InitDurations /\ [][NextDurations]_vars

(* The manager called by the threads of Callers, with or without a         *)
(* time-series database.  The function "echo" is registered, and           *)
(* registered again with the same handler and options, by the main thread  *)
(* at any moment.                                                          *)
InitThreads ==
  /\ subscribers = EmptyDict
  /\ event_history = <<>>
  /\ next_uuid = 1
  /\ threads = <<>>
  /\ functions = EmptyDict
  /\ metrics = [invocations |-> EmptyDict, errors |-> EmptyDict, durations |-> EmptyDict]
  /\ last = [op |-> "init"]
  /\ lock = None
  /\ pc = [t \in Callers |-> Idle(0)]
  /\ timeseries_manager \in {None, [initialized |-> TRUE]}
  /\ records = <<>>
  /\ app = Flask

ThreadRegisterOptions == {[retries |-> 0], [retries |-> 1]}

ThreadsRegister ==
  \E handler \in ThreadHandlers, options \in ThreadRegisterOptions :
    /\ "echo" \in DOMAIN functions
         => /\ functions["echo"].handler = handler
            /\ functions["echo"].options["retries"] = options["retries"]
    /\ RegisterFunction("echo", handler, options)

ThreadsInvokeStart ==
  \E t \in Callers, payload \in Payloads :
    /\ SumCalls(Callers) < MaxCalls
    /\ InvokeStart(t, "echo", payload, None)

ThreadsStep ==
  \E t \in Callers :
    \/ Lookup(t)
    \/ LoadInvocations(t)
    \/ StoreInvocations(t)
    \/ CallHandler(t)
    \/ RecordDurationStep(t, 1)
    \/ ReturnResult(t)
    \/ LoadErrors(t)
    \/ StoreErrors(t)
    \/ HandleError(t)

NextThreads ==
  \/ ThreadsRegister
  \/ ThreadsInvokeStart
  \/ ThreadsStep

SpecThreads == InitThreads /\ [][NextThreads]_vars

(* The manager after register_function("echo", handler, options), called   *)
(* by the threads of Callers while no registration takes place.            *)
InitRace ==
  \E handler \in ThreadHandlers, options \in ThreadRegisterOptions :
    /\ subscribers = EmptyDict
    /\ event_history = <<>>
    /\ next_uuid = 1
    /\ threads = <<>>
    /\ functions = DictSet(EmptyDict, "echo",
                           [name |-> "echo", handler |-> handler,
                            options |-> DictMerge(default_options, options)])
    /\ metrics = RegisteredMetrics([invocations |-> EmptyDict, errors |-> EmptyDict,
                                    durations |-> EmptyDict], "echo")
    /\ last = [op |-> "register_function", name |-> "echo", handler |-> handler,
               options |-> options, ret |-> TRUE]
    /\ lock = None
    /\ pc = [t \in Callers |-> Idle(0)]
    /\ timeseries_manager \in {None, [initialized |-> TRUE]}
    /\ records = <<>>
    /\ app = Flask

NextRace ==
  \/ ThreadsInvokeStart
  \/ ThreadsStep

SpecRace == InitRace /\ [][NextRace]_vars

(***************************************************************************)
(* Properties                                                              *)
(***************************************************************************)
Min(a, b) == IF a < b THEN a ELSE b

CountIn(x, list) == Cardinality({i \in 1..Len(list) : list[i] = x})

\* The subscribers of an event type, none when the type is not a key
SubscribersOf(subs, event_type) ==
  IF event_type \in DOMAIN subs THEN subs[event_type] ELSE <<>>

\* C2: a publish on an event type that has no subscriber at that moment
\* returns false, leaves the history unchanged and starts no callback.
C2_PublishWithoutSubscribers ==
  [][(last'.op = "publish" /\ SubscribersOf(subscribers, last'.event_type) = <<>>)
       => /\ last'.ret = FALSE
          /\ event_history' = event_history
          /\ threads' = threads]_vars

\* C3: a publish on an event type with at least one subscriber returns true
\* and puts one new event with that type and data at the end of the history;
\* a history of max_history events loses its oldest event, the others keep
\* their order.  (Data that is None is stored as the empty dict.)
C3_PublishAppends ==
  [][(last'.op = "publish" /\ SubscribersOf(subscribers, last'.event_type) # <<>>)
       => LET old == event_history
              new == event_history'
              evicted == IF Len(old) = max_history THEN 1 ELSE 0
          IN  /\ last'.ret = TRUE
              /\ Len(new) = Min(Len(old) + 1, max_history)
              /\ new[Len(new)].type = last'.event_type
              /\ new[Len(new)].data =
                   (IF last'.event_data = None THEN EmptyDict ELSE last'.event_data)
              /\ \A i \in 1..Len(old) : old[i].id # new[Len(new)].id
              /\ SubSeq(new, 1, Len(new) - 1) = SubSeq(old, 1 + evicted, Len(old))]_vars

\* C3 witness: a publish has evicted the oldest event of a full history
C3_Witness ==
  /\ last.op = "publish"
  /\ last.ret = TRUE
  /\ Len(event_history) = max_history
  /\ event_history[1] # PrefillEvent(1)
  /\ event_history[max_history].id = next_uuid - 1

\* C8: subscribe never deduplicates.  Every subscribe adds one occurrence of
\* the callback to the list of the event type, and a publish that succeeds
\* starts, for every callback, as many threads as the callback has
\* occurrences in the list, all of them with the published event.
C8_NoDeduplication ==
  [][/\ last'.op = "subscribe"
        => CountIn(last'.callback, subscribers'[last'.event_type])
             = CountIn(last'.callback, SubscribersOf(subscribers, last'.event_type)) + 1
     /\ (last'.op = "publish" /\ last'.ret = TRUE)
        => LET started == SubSeq(threads', Len(threads) + 1, Len(threads'))
               event == event_history'[Len(event_history')]
           IN  /\ SubSeq(threads', 1, Len(threads)) = threads
               /\ \A i \in 1..Len(started) :
                    started[i].args = event /\ started[i].status = "started"
               /\ \A callback \in Callbacks :
                    Cardinality({i \in 1..Len(started) : started[i].target = callback})
                      = CountIn(callback, subscribers[last'.event_type])]_vars

\* C8 witness: one publish has started two threads of the same callback
C8_Witness ==
  /\ last.op = "publish"
  /\ last.ret = TRUE
  /\ \E i, j \in 1..Len(threads) :
       /\ i < j
       /\ threads[i].target = threads[j].target
       /\ threads[i].args = threads[j].args
       /\ threads[i].args.id = next_uuid - 1

\* C9: unsubscribe returns false and changes neither the subscriber mapping
\* nor the history when the event type is no key of the mapping or the
\* callback is not in the list of the event type.
C9_UnsubscribeAbsent ==
  [][(last'.op = "unsubscribe"
        /\ CountIn(last'.callback, SubscribersOf(subscribers, last'.event_type)) = 0)
       => /\ last'.ret = FALSE
          /\ subscribers' = subscribers
          /\ event_history' = event_history]_vars

\* C9 witness: an unsubscribe of a callback that is not in a list that holds
\* other callbacks has returned false
C9_Witness ==
  /\ last.op = "unsubscribe"
  /\ last.ret = FALSE
  /\ last.event_type \in DOMAIN subscribers
  /\ subscribers[last.event_type] # <<>>
  /\ event_history # <<>>

\* The first index at which x occurs in list
FirstIndex(x, list) ==
  CHOOSE i \in 1..Len(list) : list[i] = x /\ \A j \in 1..(i - 1) : list[j] # x

\* C10: an unsubscribe of a callback that is in the list of the event type
\* returns true and removes the earliest occurrence of the callback and
\* nothing else: the rest of the list keeps its order, the other lists and
\* the keys of the mapping are unchanged.
C10_UnsubscribeRemovesFirst ==
  [][(last'.op = "unsubscribe"
        /\ CountIn(last'.callback, SubscribersOf(subscribers, last'.event_type)) >= 1)
       => LET old == subscribers[last'.event_type]
              k == FirstIndex(last'.callback, old)
          IN  /\ last'.ret = TRUE
              /\ DOMAIN subscribers' = DOMAIN subscribers
              /\ subscribers'[last'.event_type]
                   = SubSeq(old, 1, k - 1) \o SubSeq(old, k + 1, Len(old))
              /\ CountIn(last'.callback, subscribers'[last'.event_type])
                   = CountIn(last'.callback, old) - 1
              /\ \A t \in DOMAIN subscribers \ {last'.event_type} :
                   subscribers'[t] = subscribers[t]]_vars

\* C10 witness: an unsubscribe has returned true and left a later
\* occurrence of the callback behind another callback
C10_Witness ==
  /\ last.op = "unsubscribe"
  /\ last.ret = TRUE
  /\ LET list == subscribers[last.event_type]
     IN  \E i, j \in 1..Len(list) :
           i < j /\ list[i] # last.callback /\ list[j] = last.callback
  /\ \E t \in DOMAIN subscribers \ {last.event_type} : subscribers[t] # <<>>

\* The calls of callback with the event id that have been made
CallsOf(callback, id) ==
  {i \in 1..Len(threads) : /\ threads[i].target = callback
                           /\ threads[i].args.id = id
                           /\ threads[i].status = "finished"}

\* Event id has just been published with type "case.created" and data, to a
\* list that holds callback once
PublishedTo(callback, id, data) ==
  /\ last.op = "publish"
  /\ last.ret = TRUE
  /\ last.event_data = data
  /\ next_uuid - 1 = id
  /\ CountIn(callback, subscribers["case.created"]) = 1

\* C4: when an event type a callback is subscribed to once is published with
\* a mapping as data, get_event_history of the type holds exactly one entry
\* of that publish, with the data, and under fair scheduling of the started
\* threads the callback ends up called exactly once with that event.
C4_EventuallyCalledOnce ==
  \A callback \in Callbacks, id \in 1..MaxFairSize, data \in EventData \ {None} :
    [](PublishedTo(callback, id, data)
         => /\ LET history == HistoryOf(event_history, "case.created")
                   entries == {i \in 1..Len(history) : history[i].id = id}
               IN  /\ Cardinality(entries) = 1
                   /\ \A i \in entries : history[i].data = data
            /\ <>[](/\ Cardinality(CallsOf(callback, id)) = 1
                    /\ \A i \in CallsOf(callback, id) :
                         /\ threads[i].args.type = "case.created"
                         /\ threads[i].args.data = data))

\* C4 witness: the callback has been called once with the published event
C4_Witness ==
  \E callback \in Callbacks :
    /\ Cardinality(CallsOf(callback, 1)) = 1
    /\ \A i \in CallsOf(callback, 1) : threads[i].args.data = [case_id |-> 7]
    /\ Cardinality({i \in 1..Len(threads) :
                      threads[i].target = callback /\ threads[i].args.id = 1}) = 1
    /\ \E i \in 1..Len(event_history) : event_history[i].id = 1

\* The call that has just ended is invoke_function on a registered function
\* whose handler is the given one
InvokedWith(handler) ==
  /\ last'.op = "invoke_function"
  /\ last'.name \in DOMAIN functions
  /\ functions[last'.name].handler = handler

\* C1: one invoke_function call without options on a function registered
\* with retries = N whose handler always raises runs the handler N + 1
\* times, returns the 500 result with the message of the exception, and
\* adds N + 1 to invocations[name] and to errors[name].
C1_RetriesExhausted ==
  [][(InvokedWith("boom_handler") /\ last'.options = None)
       => LET name == last'.name
              N == functions[name].options["retries"]
          IN  /\ Len(last'.calls) = N + 1
              /\ last'.result = [statusCode |-> 500, body |-> [error |-> "fail"]]
              /\ metrics'.invocations[name] = metrics.invocations[name] + N + 1
              /\ metrics'.errors[name] = metrics.errors[name] + N + 1]_vars

\* C1 witness: the function registered with retries = 2 has been invoked
\* once and its handler has run three times
C1_Witness ==
  /\ last.op = "invoke_function"
  /\ last.options = None
  /\ last.name \in DOMAIN functions
  /\ functions[last.name].handler = "boom_handler"
  /\ functions[last.name].options["retries"] = 2
  /\ Len(last.calls) = 3
  /\ last.result.statusCode = 500
  /\ metrics.invocations[last.name] = 3
  /\ metrics.errors[last.name] = 3

\* C5: register_function on a name that is registered already replaces the
\* handler and the options and leaves the three metrics of the name as they
\* were.
C5_ReregisterKeepsMetrics ==
  [][(last'.op = "register_function" /\ last'.name \in DOMAIN functions)
       => LET name == last'.name
          IN  /\ functions'[name].handler = last'.handler
              /\ metrics'.invocations[name] = metrics.invocations[name]
              /\ metrics'.errors[name] = metrics.errors[name]
              /\ metrics'.durations[name] = metrics.durations[name]]_vars

\* C6: invoke_function on a name that is not registered returns a 404
\* result, calls no handler and changes neither the registry nor a metric.
C6_InvokeUnknown ==
  [][(last'.op = "invoke_function" /\ last'.name \notin DOMAIN functions)
       => /\ last'.result.statusCode = 404
          /\ last'.calls = <<>>
          /\ functions' = functions
          /\ metrics' = metrics
          /\ UNCHANGED bus_vars]_vars

\* C6 witness: an unknown name has been invoked while another function with
\* counted invocations is registered
C6_Witness ==
  /\ last.op = "invoke_function"
  /\ last.name \notin DOMAIN functions
  /\ last.result.statusCode = 404
  /\ \E name \in DOMAIN functions : metrics.invocations[name] > 0

\* C7: when the handler of a registered function returns on its first call,
\* invoke_function with a payload calls the handler once with that payload,
\* returns what the handler returned, adds 1 to invocations[name], leaves
\* errors[name] alone and appends one sample to durations[name].
C7_InvokeSuccess ==
  [][(InvokedWith("test_function") /\ last'.payload # None)
       => LET name == last'.name
          IN  /\ last'.calls = <<last'.payload>>
              /\ last'.result = [statusCode |-> 200,
                                 body |-> [message |-> "Success",
                                           payload |-> last'.payload]]
              /\ metrics'.invocations[name] = metrics.invocations[name] + 1
              /\ metrics'.errors[name] = metrics.errors[name]
              /\ \E duration \in Durations :
                   metrics'.durations[name] = Append(metrics.durations[name], duration)
              /\ functions' = functions]_vars

\* C7 witness: a second successful invocation has added its sample to the
\* one that was there
C7_Witness ==
  /\ last.op = "invoke_function"
  /\ last.payload = [x |-> 1]
  /\ last.result.statusCode = 200
  /\ last.name \in DOMAIN functions
  /\ metrics.invocations[last.name] = 2
  /\ metrics.errors[last.name] = 0
  /\ Len(metrics.durations[last.name]) = 2

\* Thread t is running the body of a publish on an event type that has
\* subscribers
PublishesTo(t) ==
  /\ pc[t].at = "publish"
  /\ pc'[t].at = "publish_return"
  /\ pc[t].event_type \in DOMAIN subscribers

\* Thread i of the started threads ends in this step with an exception
RaisesIn(i) ==
  /\ i \in 1..Len(threads)
  /\ threads[i].status = "started"
  /\ threads'[i].status = "raised"

\* C11: an exception raised in a subscriber does not reach the caller of
\* publish.  A publish on a list that holds a raising subscriber starts one
\* thread for every entry of the list and is about to return true; the step
\* in which a subscriber raises changes no calling thread, no other started
\* thread, no lock and no bus state; a publish whose subscriber has raised
\* already still returns true; and every other started thread whose target
\* terminates can still run.
C11_SubscriberException ==
  /\ [][/\ \A t \in Callers :
             (PublishesTo(t)
                /\ \E k \in 1..Len(subscribers[pc[t].event_type]) :
                     Behaviour(subscribers[pc[t].event_type][k]) = "raises")
             => LET subs == subscribers[pc[t].event_type]
                IN  /\ pc'[t].ret = TRUE
                    /\ Len(threads') = Len(threads) + Len(subs)
                    /\ \A k \in 1..Len(subs) :
                         /\ threads'[Len(threads) + k].target = subs[k]
                         /\ threads'[Len(threads) + k].status = "started"
                         /\ threads'[Len(threads) + k].args.data = pc[t].event_data
        /\ \A i \in 1..Len(threads') :
             RaisesIn(i)
             => /\ pc' = pc
                /\ lock' = lock
                /\ \A j \in 1..Len(threads) : j # i => threads'[j] = threads[j]
                /\ UNCHANGED <<subscribers, event_history, next_uuid, manager_vars>>
        /\ \A t \in Callers :
             (pc[t].at = "publish_return" /\ pc'[t].at = "idle"
                /\ \E i \in pc[t].started : threads[i].status = "raised")
             => last'.ret = TRUE]_vars
  /\ [](\A j \in 1..Len(threads) :
          (threads[j].status = "started" /\ Behaviour(threads[j].target) # "hangs")
          => ENABLED RunThread(j, 1))

\* C11 witness: a publish has returned true after one of its subscribers
\* raised, and a subscriber behind it in the list has been called and has
\* returned
C11_Witness ==
  /\ last.op = "publish"
  /\ last.ret = TRUE
  /\ \E i, j \in 1..Len(threads) :
       /\ i < j
       /\ threads[i].status = "raised"
       /\ threads[j].status = "finished"
       /\ threads[i].args = threads[j].args
       /\ threads[i].args.data = last.event_data

\* C12: publish does not wait for the callbacks.  A publish that has started
\* its threads can return whatever those threads are doing, the lock is
\* held only by a thread that is inside a call, and with the lock free an
\* idle thread can enter subscribe, unsubscribe and publish, also while a
\* callback that never terminates is running.
C12_PublishDoesNotWait ==
  /\ \A t \in Callers : pc[t].at = "publish_return" => ENABLED PublishReturn(t)
  /\ lock # None => pc[lock.owner].at \in {"publish", "publish_return"}
  /\ \A t \in Callers :
       (pc[t].at = "idle" /\ \A u \in Callers : pc[u].at = "idle")
       => /\ ENABLED LockedSubscribe(t, "case.created", Callable("h1"))
          /\ ENABLED LockedUnsubscribe(t, "case.created", Callable("h1"))
          /\ ENABLED PublishEnter(t, "case.created", None)

\* C12 witness: a publish has returned true while the thread an earlier
\* publish started for a callback that never terminates is still running
C12_Witness ==
  /\ last.op = "publish"
  /\ last.ret = TRUE
  /\ lock = None
  /\ \E i \in 1..Len(threads) :
       /\ Behaviour(threads[i].target) = "hangs"
       /\ threads[i].status = "started"
       /\ threads[i].args.id < next_uuid - 1

\* C13: publishes of several threads are appended one at a time in the
\* order in which the calls took the lock.  Every step that changes the
\* history is the body of the publish of the thread that holds the lock, no
\* other thread is inside a publish at that moment, and the step puts one
\* new event with the data of that call at the end and keeps every event
\* that was there.  So no event is there twice, and the events of one thread
\* are in the order of its calls.
C13_HistoryInLockOrder ==
  /\ [][event_history' # event_history
         => \E t \in Callers :
              /\ PublishesTo(t)
              /\ lock = [owner |-> t]
              /\ \A u \in Callers \ {t} : pc[u].at \notin {"publish", "publish_return"}
              /\ Len(event_history') = Len(event_history) + 1
              /\ SubSeq(event_history', 1, Len(event_history)) = event_history
              /\ event_history'[Len(event_history')].type = pc[t].event_type
              /\ event_history'[Len(event_history')].data = pc[t].event_data
              /\ pc'[t].ret = TRUE]_vars
  /\ [](\A i, j \in 1..Len(event_history) :
          i < j => /\ event_history[i].id # event_history[j].id
                   /\ event_history[i].data # event_history[j].data
                   /\ event_history[i].data.caller = event_history[j].data.caller
                        => event_history[i].data.n < event_history[j].data.n)

\* C13 witness: a thread has appended its event behind the event of
\* another thread and has not released the lock yet, while the other thread
\* is idle
C13_Witness ==
  \E t \in Callers :
    /\ pc[t].at = "publish_return"
    /\ pc[t].ret = TRUE
    /\ lock = [owner |-> t]
    /\ Len(event_history) = 2
    /\ event_history[2].data = pc[t].event_data
    /\ event_history[1].data.caller # t

\* Thread t ends in this step a call of invoke_function on a name that is
\* registered
ReturnsFrom(t) ==
  /\ pc[t].at \in {"record_success", "handle_error"}
  /\ pc'[t].at = "idle"

\* C14: invoke_function on a registered name hands a result to its caller
\* whatever the handler does.  An attempt whose handler raises goes on in
\* the except block, and the call ends with the result the handler returned
\* on its last attempt or with the 500 result that carries the message of
\* the last exception; it never ends with an exception.
C14_InvokeNeverRaises ==
  [][\A t \in Callers :
       /\ (pc[t].at = "handler" /\ pc'[t].at # "handler")
          => /\ pc'[t].at \in {"record_duration", "load_errors"}
             /\ pc'[t].outcome.raised <=> pc'[t].at = "load_errors"
       /\ ReturnsFrom(t)
          => /\ last'.op = "invoke_function"
             /\ last'.caller = t
             /\ "raised" \notin DOMAIN last'.result
             /\ "statusCode" \in DOMAIN last'.result
             /\ IF pc[t].outcome.raised
                THEN last'.result = [statusCode |-> 500,
                                     body |-> [error |-> pc[t].outcome.message]]
                ELSE last'.result = pc[t].outcome.result]_vars

\* C14 witness: a call without the field its handler needs has ended, after
\* a retry, with the 500 result
C14_Witness ==
  /\ last.op = "invoke_function"
  /\ last.name \in DOMAIN functions
  /\ functions[last.name].handler = "required_field_handler"
  /\ last.payload = None
  /\ last.attempts = 2
  /\ last.result = [statusCode |-> 500, body |-> [error |-> "'x'"]]

\* The records thread t has written with the given status
RecordsOf(recs, t, status) ==
  {i \in 1..Len(recs) : recs[i].by = t /\ recs[i].status = status}

\* C15: with a time-series database, every attempt writes exactly one
\* record that names the function: an error record when the handler raised,
\* a success record when it returned, and no other step writes a record.
\* The first call of a thread on a function registered with retries = N
\* whose handler raises on every attempt ends with N + 1 error records and
\* no success record of that thread.
C15_OneRecordPerAttempt ==
  [][(timeseries_manager # None /\ timeseries_manager.initialized)
       => /\ \A t \in Callers :
               /\ (pc[t].at = "handle_error" /\ pc'[t] # pc[t])
                  => records' = Append(records,
                       [metric_type |-> "serverless_invocation",
                        component |-> pc[t].name, status |-> "error", by |-> t])
               /\ (pc[t].at = "record_success" /\ pc'[t] # pc[t])
                  => records' = Append(records,
                       [metric_type |-> "serverless_invocation",
                        component |-> pc[t].name, status |-> "success", by |-> t])
               /\ (ReturnsFrom(t) /\ pc[t].n = 1 /\ pc[t].payload = None
                     /\ pc[t].function_config.handler = "required_field_handler")
                  => LET N == functions[pc[t].name].options["retries"]
                     IN  /\ pc[t].attempts = N + 1
                         /\ Cardinality(RecordsOf(records', t, "error")) = N + 1
                         /\ RecordsOf(records', t, "success") = {}
          /\ (\A t \in Callers :
                pc[t].at \notin {"handle_error", "record_success"} \/ pc'[t] = pc[t])
             => records' = records]_vars

\* C15 witness: with a time-series database, a call on a function
\* registered with retries = 1 has ended after two failed attempts and two
\* error records
C15_Witness ==
  /\ timeseries_manager # None
  /\ last.op = "invoke_function"
  /\ last.attempts = 2
  /\ last.result.statusCode = 500
  /\ Cardinality(RecordsOf(records, last.caller, "error")) = 2
  /\ RecordsOf(records, last.caller, "success") = {}

\* C16: the counters are updated without a lock.  The store of
\* invocations[name] += 1 and of errors[name] += 1 writes the value its
\* thread loaded plus one, whatever another thread has stored since, and
\* no thread holds a lock at that moment; the counter never exceeds the
\* number of handler executions, which is the number of records written.
C16_CountersUnlocked ==
  /\ [][\A t \in Callers :
           /\ (pc[t].at = "store_invocations" /\ pc'[t] # pc[t])
              => /\ metrics'.invocations[pc[t].name] = pc[t].loaded + 1
                 /\ lock = None
           /\ (pc[t].at = "store_errors" /\ pc'[t] # pc[t])
              => /\ metrics'.errors[pc[t].name] = pc[t].loaded + 1
                 /\ lock = None]_vars
  /\ []((timeseries_manager # None /\ \A t \in Callers : pc[t].at = "idle")
          => /\ metrics.invocations["echo"] <= Len(records)
             /\ metrics.errors["echo"] <= Len(records))

\* C16 witness: both threads have ended a call, the handler has run more
\* often than invocations[name] says
C16_Witness ==
  /\ timeseries_manager # None
  /\ \A t \in Callers : pc[t].at = "idle" /\ pc[t].n = 1
  /\ last.op = "invoke_function"
  /\ metrics.invocations["echo"] < Len(records)
  /\ metrics.invocations["echo"] = 1

\* C17: errors[name] <= invocations[name] is no invariant.  A
\* register_function call sets both counters of the name to 0 while the
\* calls of invoke_function that are under way go on where they are, and
\* the store of errors[name] += 1 adds the error of an attempt to what its
\* thread loaded and leaves invocations[name] as it is: the error of an
\* attempt is counted also when the count of its invocation is gone.
C17_ErrorsCanExceedInvocations ==
  [][/\ (pc' = pc /\ "echo" \in DOMAIN functions')
        => /\ metrics'.invocations["echo"] = 0
           /\ metrics'.errors["echo"] = 0
           /\ metrics'.durations["echo"] = <<>>
     /\ \A t \in Callers :
          (pc[t].at = "store_errors" /\ pc'[t] # pc[t])
          => /\ metrics'.errors[pc[t].name] = pc[t].loaded + 1
             /\ metrics'.invocations = metrics.invocations]_vars

\* C17 witness: more errors than invocations are counted for a function
C17_Witness ==
  /\ "echo" \in DOMAIN functions
  /\ metrics.errors["echo"] > metrics.invocations["echo"]

\* C18: durations[name] never holds more than 100 samples between calls.
\* A call whose handler returned puts its sample at the end; a list of 100
\* samples loses its oldest one and keeps the others in order; a call whose
\* attempts all raised leaves the list as it was.
C18_DurationsBounded ==
  /\ [](\A name \in DOMAIN metrics.durations : Len(metrics.durations[name]) <= 100)
  /\ [][(last'.op = "invoke_function" /\ last'.name \in DOMAIN functions
           /\ metrics' # metrics)
         => LET old == metrics.durations[last'.name]
                new == metrics'.durations[last'.name]
                attempts == metrics'.invocations[last'.name]
                              - metrics.invocations[last'.name]
                failed == metrics'.errors[last'.name] - metrics.errors[last'.name]
            IN  IF failed = attempts
                THEN new = old
                ELSE /\ failed = attempts - 1
                     /\ \E duration \in Durations :
                          new = (IF Len(old) = 100 THEN Tail(old) ELSE old)
                                  \o <<duration>>]_vars

\* C18 witness: after more than 100 handler executions that returned, the
\* list holds 100 samples and the oldest sample left is the second one
C18_Witness ==
  /\ last.op = "invoke_function"
  /\ last.name = "echo"
  /\ last.result.statusCode = 200
  /\ metrics.invocations["echo"] - metrics.errors["echo"] = 101
  /\ metrics.errors["echo"] >= 1
  /\ Len(metrics.durations["echo"]) = 100
  /\ \A i \in 1..98 : metrics.durations["echo"][i] = PrefillDuration(i + 1)

\* C19: list_functions changes nothing.  It returns one entry for every
\* registered name and no other entry; the entry of a name carries the
\* invocations and errors counters of the name, and an average duration of
\* 0 when the name has no sample.
C19_ListFunctionsPure ==
  [][last'.op = "list_functions"
       => /\ UNCHANGED <<bus_vars, manager_vars, call_vars>>
          /\ {entry.name : entry \in last'.entries} = DOMAIN functions
          /\ Cardinality(last'.entries) = Cardinality(DOMAIN functions)
          /\ \A entry \in last'.entries :
               /\ entry.metrics.invocations = metrics.invocations[entry.name]
               /\ entry.metrics.errors = metrics.errors[entry.name]
               /\ metrics.durations[entry.name] = <<>>
                    => /\ entry.metrics.avg_duration.num = 0
                       /\ entry.metrics.avg_duration.den # 0]_vars

\* C19 witness: the list holds a function that has failed and has no
\* sample next to the function that has 100 samples
C19_Witness ==
  /\ last.op = "list_functions"
  /\ Cardinality(last.entries) = 2
  /\ \E entry \in last.entries :
       /\ entry.metrics.invocations > 0
       /\ entry.metrics.errors = entry.metrics.invocations
       /\ entry.metrics.avg_duration = Quotient(0, 1)
  /\ \E entry \in last.entries : entry.metrics.avg_duration.den = 100

\* C20: get_event_history changes no state of the bus.  Without an event
\* type it returns the history as it is; with an event type it returns the
\* events of the history that have the type, each once, in the order of the
\* history (the order of the ids, which grow with every publish).  The list is the caller's: appending to it or removing from it
\* leaves the history of the bus as it was.
C20_HistorySnapshot ==
  [][/\ last'.op = "get_event_history"
        => /\ UNCHANGED <<bus_vars, manager_vars, call_vars>>
           /\ \A i \in 1..(Len(event_history) - 1) :
                event_history[i].id < event_history[i + 1].id
           /\ IF last'.event_type = ""
              THEN last'.events = event_history
              ELSE /\ {last'.events[i] : i \in 1..Len(last'.events)}
                        = {event_history[k] : k \in
                             {k \in 1..Len(event_history) :
                                event_history[k].type = last'.event_type}}
                   /\ \A i \in 1..(Len(last'.events) - 1) :
                        last'.events[i].id < last'.events[i + 1].id
     /\ last'.op = "returned_list_changed"
        => /\ last'.events # last.events
           /\ UNCHANGED <<bus_vars, manager_vars, call_vars>>]_vars

\* C20 witness: the caller has appended an item to the list it got for the
\* whole history of 100 events of two types, and the history does not hold
\* the item
C20_Witness ==
  /\ last.op = "returned_list_changed"
  /\ last.event_type = ""
  /\ Len(last.events) = max_history + 1
  /\ Len(event_history) = max_history
  /\ \E i, j \in 1..Len(event_history) : event_history[i].type # event_history[j].type
  /\ \A i \in 1..Len(event_history) : event_history[i] # CallerItem

(***************************************************************************)
(* Functions triggered by events.  The functions are registered with the   *)
(* events that trigger them, events are published, and every thread        *)
(* publish started is scheduled in the end.                                *)
(***************************************************************************)
MaxEventsSize == 5

EventOptions ==
  {[retries |-> 0, events |-> <<[type |-> "case.created"]>>],
   [retries |-> 1, events |-> <<[type |-> "case.created"], [type |-> "user.login"]>>]}

EventsRegister ==
  \E name \in FunctionNames, handler \in Handlers, options \in EventOptions :
    /\ BusSize + Len(EventsOf(options)) < MaxEventsSize
    /\ RegisterFunction(name, handler, options)

EventsPublish ==
  \E event_type \in EventTypes, event_data \in EventData :
    /\ BusSize + NumStarted(event_type) < MaxEventsSize
    /\ Publish(event_type, event_data)

NextEvents ==
  \/ EventsRegister
  \/ EventsPublish
  \/ BusRunThread

SpecEvents ==
  /\ Init
  /\ [][NextEvents]_vars
  /\ \A i \in 1..MaxEventsSize : WF_vars(\E duration \in Durations : RunThread(i, duration))

\* The event types the configuration of a registered function lists
ListedTypes(name) ==
  {functions[name].options["events"][k].type :
     k \in 1..Len(functions[name].options["events"])}

\* Thread i is a thread a publish started for the closure of some function
ClosureThread(i) == i \in 1..Len(threads) /\ threads[i].target.kind = "lambda"

MaxRules == 3
MaxMapLen == 5

\* A view function of the application
ViewFunction(name) ==
  [kind |-> "view", name |-> name, function |-> "", id |-> 0, is_serverless |-> FALSE]

ViewFunctions == {ViewFunction("index"), ViewFunction("login")}

RulePaths == {"/", "/login"}

\* The endpoints the application gives its rules: None stands for the
\* default, the name of the view function
Endpoints == {"", "api.index"}

\* The wrapper of flask_route_to_serverless: functools.wraps gives it the
\* name and the attributes of func
Wrapper(func, name, id) ==
  [kind |-> "wrapper", name |-> func.name, function |-> name, id |-> id,
   is_serverless |-> func.is_serverless]

\* The closure serverless_handler of flask_route_to_serverless
RouteHandler(func) == func.name \o ".serverless_handler"

\* Flask.add_url_rule(rule, endpoint, view_func), which app.route calls: the
\* endpoint defaults to the name of the view function, the rule is added to
\* the map, and an endpoint that has another view function already makes
\* it raise AssertionError
AddUrlRule(a, rule, endpoint, view_func) ==
  LET e == IF endpoint = "" THEN view_func.name ELSE endpoint
      added == Append(a.url_map, [rule |-> rule, endpoint |-> e])
  IN  IF e \in DOMAIN a.view_functions /\ a.view_functions[e] # view_func
      THEN [app |-> [url_map |-> added, view_functions |-> a.view_functions],
            raised |-> TRUE]
      ELSE [app |-> [url_map |-> added,
                     view_functions |-> DictSet(a.view_functions, e, view_func)],
            raised |-> FALSE]

\* The number of wrappers made so far: every decoration adds one rule
NextWrapperId(a) == Len(a.url_map)

\* flask_route_to_serverless(app, route, name=name)(func) on the state st:
\* the function is registered, then the wrapper is made a route of the
\* application under the name of func
RouteToServerless(st, route, name, func) ==
  LET function_config ==
        [name |-> name, handler |-> RouteHandler(func),
         options |-> DictMerge(default_options, EmptyDict)]
      wrapper == Wrapper(func, name, NextWrapperId(st.app))
      routed == AddUrlRule(st.app, route, "", wrapper)
  IN  [app |-> routed.app,
       functions |-> DictSet(st.functions, name, function_config),
       metrics |-> RegisteredMetrics(st.metrics, name),
       registered |-> Append(st.registered, name),
       raised |-> routed.raised,
       wrapper |-> wrapper]

\* hasattr(view_func, '_is_serverless')
IsWrapped(view_func) == view_func.is_serverless

\* wrapped_func._is_serverless = True: the wrapper is an object, and the
\* entries of view_functions that hold it see the attribute
Marked(a, wrapper) ==
  [a EXCEPT !.view_functions =
     [e \in DOMAIN a.view_functions |->
        IF a.view_functions[e] = wrapper
        THEN [wrapper EXCEPT !.is_serverless = TRUE]
        ELSE a.view_functions[e]]]

\* The loop of init_app from the i-th rule of the map on; the rules the
\* loop adds are rules of the map it iterates over
RECURSIVE InitAppFrom(_, _)
InitAppFrom(st, i) ==
  IF i > Len(st.app.url_map) THEN st
  ELSE LET rule == st.app.url_map[i]
       IN  IF rule.endpoint = "static" THEN InitAppFrom(st, i + 1)
           ELSE LET view_func == st.app.view_functions[rule.endpoint]
                IN  IF IsWrapped(view_func)
                    THEN InitAppFrom(st, i + 1)
                    ELSE LET done == RouteToServerless(st, rule.rule,
                                                       "route_" \o rule.endpoint,
                                                       view_func)
                         IN  IF done.raised
                             THEN [app |-> done.app, functions |-> done.functions,
                                   metrics |-> done.metrics,
                                   registered |-> done.registered, raised |-> TRUE]
                             ELSE InitAppFrom(
                                    [app |-> Marked(done.app, done.wrapper),
                                     functions |-> done.functions,
                                     metrics |-> done.metrics,
                                     registered |-> done.registered,
                                     raised |-> FALSE], i + 1)

\* init_app(app): last tells which functions the call registered, in
\* order, and whether it raised
InitApp ==
  LET done == InitAppFrom([app |-> app, functions |-> functions, metrics |-> metrics,
                           registered |-> <<>>, raised |-> FALSE], 1)
  IN  /\ app' = done.app
      /\ functions' = done.functions
      /\ metrics' = done.metrics
      /\ last' = [op |-> "init_app", registered |-> done.registered,
                  raised |-> done.raised]
      /\ UNCHANGED <<bus_vars, lock, pc, timeseries_manager, records>>

\* The application adds a route: app.add_url_rule(rule, endpoint, view_func)
AddRoute(rule, endpoint, view_func) ==
  LET done == AddUrlRule(app, rule, endpoint, view_func)
  IN  /\ app' = done.app
      /\ last' = [op |-> "add_url_rule", rule |-> rule, endpoint |-> endpoint,
                  raised |-> done.raised]
      /\ UNCHANGED <<bus_vars, manager_vars, lock, pc, timeseries_manager, records>>

AppAddRoute ==
  \E rule \in RulePaths, endpoint \in Endpoints, view_func \in ViewFunctions :
    /\ Len(app.url_map) < MaxRules
    /\ AddRoute(rule, endpoint, view_func)

AppInitApp ==
  /\ Len(app.url_map) < MaxMapLen
  /\ InitApp

NextApp ==
  \/ AppAddRoute
  \/ AppInitApp

SpecApp == Init /\ [][NextApp]_vars

\* C22: when init_app runs on an application right after a run of init_app
\* that returned, it registers no function that is registered already, and
\* it leaves every wrapper among the view functions as it is.
C22_NoDoubleWrap ==
  [][(last.op = "init_app" /\ ~last.raised /\ last'.op = "init_app")
       => /\ \A k \in 1..Len(last'.registered) :
               last'.registered[k] \notin DOMAIN functions
          /\ ~last'.raised
          /\ app' = app]_vars

\* C23: when the handler always raises, a call that passes options with
\* retries = M runs the handler M + 1 times whatever the function was
\* registered with, a call that passes no options runs it once more than
\* the registered retries, which are 3 when the registration gave none, and
\* the mapping the caller passed holds after the call what it held before.
C23_RetryBudget ==
  [][InvokedWith("boom_handler")
       => LET name == last'.name
              configured == functions[name].options["retries"]
              budget == IF last'.options # None /\ "retries" \in DOMAIN last'.options
                        THEN last'.options["retries"]
                        ELSE configured
          IN  /\ Len(last'.calls) = budget + 1
              /\ last'.result.statusCode = 500
              /\ last'.options_after = last'.options]_vars
     /\ []((last.op = "register_function" /\ last.options = None)
            => functions[last.name].options["retries"] = 3)

\* A function registered with retries = 2 is called with retries = 1 and its
\* handler has run twice
C23_Witness ==
  /\ last.op = "invoke_function"
  /\ last.options = [retries |-> 1]
  /\ last.options_after = [retries |-> 1]
  /\ last.name \in DOMAIN functions
  /\ functions[last.name].handler = "boom_handler"
  /\ functions[last.name].options["retries"] = 2
  /\ Len(last.calls) = 2
  /\ last.result.statusCode = 500

(***************************************************************************)
(* invoke_function called by one thread, on a function that is registered  *)
(* and not registered again.  The thread is scheduled as long as it is in  *)
(* a call.  The call remembers in  before  the metrics and the options it  *)
(* started with.                                                           *)
(***************************************************************************)
MaxSoloCalls == 3

SoloCaller == "t1"

SoloOptions == {None, [retries |-> 2]}

\* The thread calls invoke_function("echo", payload, options)
SoloInvokeStart ==
  \E payload \in Payloads, options \in SoloOptions :
    /\ pc[SoloCaller].at = "idle"
    /\ pc[SoloCaller].n < MaxSoloCalls
    /\ pc' = [pc EXCEPT ![SoloCaller] =
                [at |-> "lookup", n |-> pc[SoloCaller].n + 1, name |-> "echo",
                 payload |-> payload, options |-> options, attempts |-> 0,
                 before |-> [metrics |-> metrics, options |-> options]]]
    /\ UNCHANGED <<bus_vars, manager_vars, last, lock, timeseries_manager, app, records>>

NextSolo ==
  \/ SoloInvokeStart
  \/ ThreadsStep

SpecSolo == InitRace /\ [][NextSolo]_vars /\ WF_vars(ThreadsStep)

\* C24: a call of invoke_function ends after at most budget + 1 calls of
\* the handler, the budget being options.retries when the caller gave it and
\* the registered retries otherwise.  When the handler raised on its first k
\* calls and returned on call k + 1, the call returns what the handler
\* returned, invocations has risen by k + 1, errors by k, and one duration
\* sample was appended.  Otherwise the handler raised budget + 1 times and
\* the call returns the 500 result.  Every call that has started ends.
C24_RetryThenSucceed ==
  /\ [][(pc[SoloCaller].at # "idle" /\ pc'[SoloCaller].at = "idle")
         => LET call == pc[SoloCaller]
                name == call.name
                before == call.before.metrics
                given == call.before.options
                budget == IF given # None /\ "retries" \in DOMAIN given
                          THEN given["retries"]
                          ELSE functions[name].options["retries"]
                attempts == last'.attempts
            IN  /\ attempts <= budget + 1
                /\ metrics'.invocations[name] = before.invocations[name] + attempts
                /\ IF call.at = "record_success"
                   THEN /\ ~call.outcome.raised
                        /\ last'.result = call.outcome.result
                        /\ metrics'.errors[name] = before.errors[name] + attempts - 1
                        /\ Len(metrics'.durations[name])
                             = Len(before.durations[name]) + 1
                   ELSE /\ call.at = "handle_error"
                        /\ attempts = budget + 1
                        /\ last'.result = Failure(call.outcome.message)
                        /\ metrics'.errors[name] = before.errors[name] + attempts
                        /\ metrics'.durations[name] = before.durations[name]]_vars
  /\ (pc[SoloCaller].at # "idle") ~> (pc[SoloCaller].at = "idle")

\* The handler raised twice and returned on its third call, in a call with
\* retries = 2 on a function that had a sample already
C24_Witness ==
  /\ last.op = "invoke_function"
  /\ pc[SoloCaller].at = "idle"
  /\ last.attempts = 3
  /\ last.result = [statusCode |-> 200, body |-> [ok |-> TRUE]]
  /\ metrics.errors["echo"] >= 2
  /\ Len(metrics.durations["echo"]) >= 2

\* C25: when one thread calls invoke_function on a function that is not
\* registered again, then after every call invocations[name] is errors[name]
\* plus the number of handler executions that returned normally, and so
\* errors[name] <= invocations[name].  A handler execution that returns
\* normally is the one and only step after which a duration sample is
\* appended, and fewer than 100 samples are taken, so that number is the
\* length of durations[name].
C25_InvocationsBalance ==
  /\ [](pc[SoloCaller].at = "idle"
          => \A name \in DOMAIN functions :
               /\ metrics.invocations[name]
                    = metrics.errors[name] + Len(metrics.durations[name])
               /\ metrics.errors[name] <= metrics.invocations[name])
  /\ [][\A name \in DOMAIN functions :
          /\ (pc[SoloCaller].at = "handler" /\ pc'[SoloCaller].at = "record_duration")
               <=> (pc'[SoloCaller].at = "record_duration"
                      /\ ~pc'[SoloCaller].outcome.raised)
          /\ (pc[SoloCaller].at = "record_duration" /\ pc[SoloCaller].name = name)
               <=> Len(metrics'.durations[name]) = Len(metrics.durations[name]) + 1
          /\ Len(metrics'.durations[name]) >= Len(metrics.durations[name])
          /\ Len(metrics'.durations[name]) < 100]_vars

\* Three calls have ended, with failed and with successful handler
\* executions among them
C25_Witness ==
  /\ pc[SoloCaller] = Idle(MaxSoloCalls)
  /\ metrics.errors["echo"] >= 2
  /\ Len(metrics.durations["echo"]) >= 2
  /\ metrics.invocations["echo"]
       = metrics.errors["echo"] + Len(metrics.durations["echo"])

\* The number of entries for event_type in the events the function is
\* configured with
EntriesFor(name, event_type) ==
  Cardinality({k \in 1..Len(functions[name].options["events"]) :
                 functions[name].options["events"][k].type = event_type})

\* C26: for every registered function and every event type, the bus holds
\* as many subscriptions of the closure that invokes the function as the
\* configuration of the function has entries for the type.
C26_SubscriptionsMatchEvents ==
  \A name \in DOMAIN functions : \A event_type \in EventTypes :
    CountIn(Lambda(name), SubscribersOf(subscribers, event_type))
      = EntriesFor(name, event_type)

(***************************************************************************)
(* The decorators and the module serverless_functions.py, which decorates  *)
(* process_new_case and match_lawyers with serverless_function and         *)
(* handle_user_login with event_handler when it is imported.               *)
(***************************************************************************)
MaxDecoratorSize == 3

\* The options serverless_functions.py passes to serverless_function
DecoratedOptions(func) ==
  IF func = "process_new_case"
  THEN [timeout |-> 60000, memory_size |-> 256,
        events |-> <<[type |-> "case.created"]>>]
  ELSE [timeout |-> 60000, memory_size |-> 256]

\* @serverless_function(options=...) on func: the function is registered
\* under its own name
ServerlessFunction(func) ==
  /\ func \notin DOMAIN functions
  /\ RegisterFunction(func, func, DecoratedOptions(func))

\* The closure  lambda event: serverless_manager.invoke_function(name, event)
\* of event_handler
EventLambda(name) == [kind |-> "lambda", name |-> name, of |-> "event_handler"]

\* handler_options of event_handler: options or {} with the event type
\* appended to its events
HandlerOptions(options, event_type) ==
  LET handler_options == OrEmptyDict(options)
  IN  DictSet(handler_options, "events",
              Append(EventsOf(handler_options), [type |-> event_type]))

\* @event_handler(event_type) on func: register_function with the closure
\* serverless_handler and the event among the options, and then a
\* subscription of its own
EventHandler(event_type, func) ==
  LET name == func
      handler_options == HandlerOptions(None, event_type)
      function_config ==
        [name |-> name, handler |-> EventHandlerOf(func),
         options |-> DictMerge(default_options, handler_options)]
  IN  /\ func \notin DOMAIN functions
      /\ functions' = DictSet(functions, name, function_config)
      /\ metrics' = RegisteredMetrics(metrics, name)
      /\ subscribers' =
           Subscribed(SubscribeEvents(subscribers, EventsOf(handler_options),
                                      Lambda(name)),
                      event_type, EventLambda(name))
      /\ last' = [op |-> "event_handler", name |-> name, event_type |-> event_type]
      /\ UNCHANGED <<event_history, next_uuid, threads, call_vars>>

\* The payload the wrapper of serverless_function builds from its arguments
WrapperPayload(args) == [args |-> args, kwargs |-> EmptyDict]

\* The decorated function is called as f(payload, context): the wrapper
\* calls invoke_function with the payload it builds
CallDecorated(func, payload, duration) ==
  LET args == <<payload, EmptyDict>>
      done == InvokeFunction(functions, metrics, func, WrapperPayload(args), None,
                             duration)
  IN  /\ func \in DOMAIN functions
      /\ metrics' = done.metrics
      /\ last' = [op |-> "call_decorated", name |-> func, args |-> args,
                  result |-> done.result, calls |-> done.calls]
      /\ UNCHANGED <<bus_vars, functions, call_vars>>

\* The data the application publishes with case.created and user.login
PublishedData ==
  {None, [case_id |-> 7], [user_id |-> 5], [case_id |-> 0], [user_id |-> 0]}

\* What the bound counts: published events and calls of decorated functions
DecoratorSize == (next_uuid - 1) + NumInvocations

DecoratorsServerlessFunction ==
  \E func \in {"process_new_case", "match_lawyers"} : ServerlessFunction(func)

DecoratorsPublish ==
  \E event_type \in EventTypes, event_data \in PublishedData :
    /\ DecoratorSize + NumStarted(event_type) < MaxDecoratorSize
    /\ Publish(event_type, event_data)

DecoratorsCall ==
  \E payload \in PublishedData \ {None}, duration \in Durations :
    /\ DecoratorSize < MaxDecoratorSize
    /\ CallDecorated("match_lawyers", payload, duration)

NextDecorators ==
  \/ DecoratorsServerlessFunction
  \/ EventHandler("user.login", "handle_user_login")
  \/ DecoratorsPublish
  \/ DecoratorsCall
  \/ BusRunThread

SpecDecorators == Init /\ [][NextDecorators]_vars

\* C27: handle_user_login is decorated once with event_handler('user.login')
\* and does not raise, so once every thread has run invocations counts one
\* invocation for each published user.login event.
C27_OncePerPublish ==
  ("handle_user_login" \in DOMAIN functions
     /\ \A i \in 1..Len(threads) : threads[i].status = "finished")
    => metrics.invocations["handle_user_login"]
         = Len(HistoryOf(event_history, "user.login"))

\* Thread i runs the closure of the function name for an event of the
\* given type, and data is what the event carries
RunsFor(i, name, event_type, data) ==
  /\ i \in 1..Len(threads)
  /\ threads[i].status = "started"
  /\ threads'[i].status = "finished"
  /\ threads[i].target.kind = "lambda"
  /\ threads[i].target.name = name
  /\ threads[i].args.type = event_type
  /\ threads[i].args.data = data

\* C28: a function bound to an event type reads the fields of the published
\* data from its argument: process_new_case run for a case.created event
\* with a case_id answers 200 with that case_id, and handle_user_login run
\* for a user.login event with a user_id answers with that user_id.
C28_EventDataReachesHandler ==
  [][\A i \in 1..Len(threads) :
       /\ RunsFor(i, "process_new_case", "case.created", [case_id |-> 7])
            => /\ last'.result.statusCode = 200
               /\ last'.result.body = [case_id |-> 7]
       /\ RunsFor(i, "handle_user_login", "user.login", [user_id |-> 5])
            => last'.result = [user_id |-> 5, processed |-> TRUE]]_vars

\* C29: match_lawyers called as match_lawyers(payload, context) with a
\* payload that has a case_id returns statusCode 200 with that case_id in
\* the body.
C29_DirectCallPassesPayload ==
  [][(last'.op = "call_decorated" /\ last'.name = "match_lawyers"
        /\ ~Missing(last'.args[1], "case_id"))
       => /\ last'.calls = <<last'.args[1]>>
          /\ last'.result.statusCode = 200
          /\ last'.result.body.case_id = last'.args[1]["case_id"]]_vars

(***************************************************************************)
(* The bus lock.  A call of a bus method first waits for the lock, runs    *)
(* its body while it holds the lock and releases it when it returns.  The  *)
(* callers are the thread LockCaller and the threads publish starts for    *)
(* callbacks that call the bus they are subscribed to.                     *)
(***************************************************************************)
MaxLockSize == 5

\* The thread that calls the bus next to the threads of the callbacks
LockCaller == "t1"

MaxLockThreads == 2 * MaxLockSize

BusMethods == {"publish", "subscribe", "unsubscribe", "get_event_history"}

\* Callbacks that call a method of the bus with the type of their event
BusCallers ==
  {Callable("h_publish"), Callable("h_subscribe"), Callable("h_unsubscribe"),
   Callable("h_get_event_history")}

\* The method the callback calls
MethodOf(callback) ==
  IF callback.id = "h_publish" THEN "publish"
  ELSE IF callback.id = "h_subscribe" THEN "subscribe"
  ELSE IF callback.id = "h_unsubscribe" THEN "unsubscribe"
  ELSE "get_event_history"

\* threading.Thread names the i-th thread Thread-i
ThreadName(i) == "Thread-" \o ToString(i)

\* The body of subscribe, unsubscribe and get_event_history: the subscriber
\* mapping after it and what the method returns
Locked(method, event_type, callback) ==
  IF method = "subscribe"
  THEN [subscribers |-> Subscribed(subscribers, event_type, callback), ret |-> TRUE]
  ELSE IF method = "unsubscribe"
  THEN IF event_type \notin DOMAIN subscribers
       THEN [subscribers |-> subscribers, ret |-> FALSE]
       ELSE IF ~InList(callback, subscribers[event_type])
       THEN [subscribers |-> subscribers, ret |-> FALSE]
       ELSE [subscribers |-> DictSet(subscribers, event_type,
                                     ListRemove(subscribers[event_type], callback)),
             ret |-> TRUE]
  ELSE [subscribers |-> subscribers,
        ret |-> ReturnedList(event_history, event_type).items]

\* Thread t calls a method of the bus and reaches  with self.lock
LockCall(t, method, event_type, callback) ==
  /\ pc[t].at = "idle"
  /\ pc' = [pc EXCEPT ![t] = [at |-> "acquire", n |-> pc[t].n + 1, method |-> method,
                               event_type |-> event_type,
                               event_data |-> None, callback |-> callback]]
  /\ UNCHANGED <<bus_vars, manager_vars, last, lock, timeseries_manager, app, records>>

\* with self.lock: the lock is free and t takes it
LockAcquire(t) ==
  /\ pc[t].at = "acquire"
  /\ CanAcquire(lock, t)
  /\ lock' = [owner |-> t]
  /\ pc' = [pc EXCEPT ![t] =
              IF pc[t].method = "publish"
              THEN [at |-> "publish", n |-> pc[t].n, event_type |-> pc[t].event_type,
                    event_data |-> pc[t].event_data]
              ELSE [pc[t] EXCEPT !.at = "locked"]]
  /\ UNCHANGED <<bus_vars, manager_vars, last, timeseries_manager, app, records>>

\* The body of subscribe, unsubscribe or get_event_history and its return,
\* which frees the lock
LockRelease(t) ==
  LET done == Locked(pc[t].method, pc[t].event_type, pc[t].callback)
  IN  /\ pc[t].at = "locked"
      /\ subscribers' = done.subscribers
      /\ lock' = None
      /\ pc' = [pc EXCEPT ![t] = Idle(pc[t].n)]
      /\ last' = [op |-> pc[t].method, caller |-> t, event_type |-> pc[t].event_type,
                  ret |-> done.ret]
      /\ UNCHANGED <<event_history, next_uuid, threads, manager_vars,
                     timeseries_manager, app, records>>

\* The callback of thread i calls its method of the bus and reaches
\* with self.lock
ThreadCall(i) ==
  /\ i \in 1..Len(threads)
  /\ threads[i].status = "started"
  /\ threads[i].target \in BusCallers
  /\ threads' = [threads EXCEPT ![i].status = "waiting"]
  /\ UNCHANGED <<subscribers, event_history, next_uuid, manager_vars, last, call_vars>>

ThreadAcquire(i) ==
  /\ i \in 1..Len(threads)
  /\ threads[i].status = "waiting"
  /\ CanAcquire(lock, ThreadName(i))
  /\ lock' = [owner |-> ThreadName(i)]
  /\ threads' = [threads EXCEPT ![i].status = "locked"]
  /\ UNCHANGED <<subscribers, event_history, next_uuid, manager_vars, last, pc,
                 timeseries_manager, app, records>>

\* The body of the method the callback of thread i calls.  subscribe,
\* unsubscribe and get_event_history return and free the lock; publish has
\* started its threads and is about to return.
ThreadLocked(i) ==
  LET method == MethodOf(threads[i].target)
      event_type == threads[i].args.type
      done == Locked(method, event_type, threads[i].target)
      event == NewEvent(next_uuid, event_type, None)
      started == StartThreads(subscribers[event_type], event)
  IN  /\ i \in 1..Len(threads)
      /\ threads[i].status = "locked"
      /\ IF method # "publish"
         THEN /\ subscribers' = done.subscribers
              /\ threads' = [threads EXCEPT ![i].status = "finished"]
              /\ lock' = None
              /\ last' = [op |-> method, caller |-> ThreadName(i),
                          event_type |-> event_type, ret |-> done.ret]
              /\ UNCHANGED <<event_history, next_uuid>>
         ELSE IF event_type \notin DOMAIN subscribers
         THEN /\ threads' = [threads EXCEPT ![i] =
                               [target |-> @.target, args |-> @.args,
                                status |-> "publish_return", ret |-> FALSE,
                                started |-> {}]]
              /\ UNCHANGED <<subscribers, event_history, next_uuid, lock, last>>
         ELSE /\ event_history' = AppendHistory(event_history, event)
              /\ next_uuid' = next_uuid + 1
              /\ threads' = [threads EXCEPT ![i] =
                               [target |-> @.target, args |-> @.args,
                                status |-> "publish_return", ret |-> TRUE,
                                started |-> (Len(threads) + 1)..(Len(threads) + Len(started))]]
                            \o started
              /\ UNCHANGED <<subscribers, lock, last>>
      /\ UNCHANGED <<manager_vars, pc, timeseries_manager, app, records>>

\* The publish the callback of thread i called returns and frees the lock
ThreadReturn(i) ==
  /\ i \in 1..Len(threads)
  /\ threads[i].status = "publish_return"
  /\ \A j \in Joined(threads[i].started) : threads[j].status \in {"finished", "raised"}
  /\ lock' = None
  /\ threads' = [threads EXCEPT ![i] =
                   [target |-> @.target, args |-> @.args, status |-> "finished"]]
  /\ last' = [op |-> "publish", caller |-> ThreadName(i),
              event_type |-> threads[i].args.type, ret |-> threads[i].ret]
  /\ UNCHANGED <<subscribers, event_history, next_uuid, manager_vars, pc,
                 timeseries_manager, app, records>>

\* What the bound of SpecLock counts: calls of the callers and started
\* threads
LockSize == SumCalls(Callers) + Len(threads)

LockCallStep ==
  \E t \in {LockCaller}, method \in BusMethods :
    /\ LockSize + (IF method = "publish" THEN NumStarted("case.created") ELSE 0)
         < MaxLockSize
    /\ IF method \in {"subscribe", "unsubscribe"}
       THEN \E callback \in BusCallers :
              LockCall(t, method, "case.created", callback)
       ELSE LockCall(t, method, "case.created", None)

LockThreadCall ==
  \E i \in 1..Len(threads) :
    /\ MethodOf(threads[i].target) = "publish"
         => LockSize + NumStarted(threads[i].args.type) < MaxLockSize
    /\ ThreadCall(i)

NextLock ==
  \/ LockCallStep
  \/ LockAcquire(LockCaller)
  \/ LockRelease(LockCaller)
  \/ PublishLocked(LockCaller)
  \/ PublishReturn(LockCaller)
  \/ LockThreadCall
  \/ \E i \in 1..Len(threads) : ThreadAcquire(i)
  \/ \E i \in 1..Len(threads) : ThreadLocked(i)
  \/ \E i \in 1..Len(threads) : ThreadReturn(i)

\* The steps of caller t between its call and its return
CallerRuns(t) == LockAcquire(t) \/ LockRelease(t) \/ PublishLocked(t) \/ PublishReturn(t)

\* The steps of thread i between the call of its callback and its return
ThreadRuns(i) == ThreadAcquire(i) \/ ThreadLocked(i) \/ ThreadReturn(i)

\* A thread that holds the lock is scheduled, and a thread that waits for a
\* lock that stays free gets it
SpecLock ==
  /\ Init
  /\ [][NextLock]_vars
  /\ WF_vars(CallerRuns(LockCaller))
  /\ \A i \in 1..MaxLockThreads : WF_vars(ThreadRuns(i))

\* The thread that holds the lock can take its next step
HolderCanRun ==
  \/ /\ lock = [owner |-> LockCaller]
     /\ ENABLED (LockRelease(LockCaller) \/ PublishLocked(LockCaller)
                   \/ PublishReturn(LockCaller))
  \/ \E i \in 1..Len(threads) :
       lock = [owner |-> ThreadName(i)]
         /\ ENABLED (ThreadLocked(i) \/ ThreadReturn(i))

\* Thread i is in a call of the bus that its callback made
ThreadInCall(i) ==
  /\ i \in 1..Len(threads)
  /\ threads[i].status \in {"waiting", "locked", "publish_return"}

====
